---- MODULE Spec2Model ----
(***************************************************************************)
(* Model of whisper-node's naive speaker diarization (runDiarization),     *)
(* the alignment of diarization segments onto transcript lines             *)
(* (assignSpeakersToTranscript) and the sentence merger                    *)
(* (mergeWordLevelTranscript, timeToMs, msToTime).                         *)
(***************************************************************************)
EXTENDS Integers, Sequences, FiniteSets, TLC

(***************************************************************************)
(* JavaScript numbers.  Frame and segment times are IEEE-754 doubles: the  *)
(* code computes them as i / sr and t0 + frameMs / 1000, each operation    *)
(* rounded to 53 significant bits, ties to even.  A time is held as its    *)
(* exact binary expansion, cut into Limbs limbs of LimbBits bits, the most *)
(* significant limb (the integer part) first.  Every time of the model is  *)
(* 0 or lies between 2^-22 and 2^23, so every double it takes is on this   *)
(* grid.                                                                   *)
(***************************************************************************)
LimbBits == 15

Limbs == 6

MantissaBits == 53

Base == 2 ^ LimbBits

Zero == [j \in 1..Limbs |-> 0] \o <<>>

RECURSIVE FracDigits(_, _, _)
\* the first k limbs of the fraction r / d, for 0 <= r < d
FracDigits(r, d, k) ==
  IF k = 0 THEN <<>>
  ELSE <<(r * Base) \div d>> \o FracDigits((r * Base) % d, d, k - 1)

RECURSIVE FracRest(_, _, _)
\* what is left of r / d after its first k limbs (as a remainder)
FracRest(r, d, k) == IF k = 0 THEN r ELSE FracRest((r * Base) % d, d, k - 1)

\* n / d truncated to the grid, with the "sticky" flag of the discarded rest
FixDiv(n, d) ==
  [bits   |-> <<n \div d>> \o FracDigits(n % d, d, Limbs - 1),
   sticky |-> FracRest(n % d, d, Limbs - 1) # 0]

RECURSIVE CarryFrom(_, _, _)
CarryStep(v, j, s) ==
  IF j = 1 THEN <<s>>
  ELSE Append(CarryFrom(v, j - 1, (s - (s % Base)) \div Base), s % Base)

\* limbs 1..j of v brought back into 0..Base-1, given the carry into limb j
\* (a borrow is a carry of -1; the integer part, limb 1, is not cut)
CarryFrom(v, j, carry) == CarryStep(v, j, v[j] + carry)

AddBits(a, b) == CarryFrom([j \in 1..Limbs |-> a[j] + b[j]], Limbs, 0)

\* a - b for a >= b
SubBits(a, b) == CarryFrom([j \in 1..Limbs |-> a[j] - b[j]], Limbs, 0)

\* a * c for an integer c >= 0
MulBits(a, c) == CarryFrom([j \in 1..Limbs |-> a[j] * c], Limbs, 0)

Less(a, b) == \E j \in 1..Limbs : a[j] < b[j] /\ \A k \in 1..(j - 1) : a[k] = b[k]

Leq(a, b) == a = b \/ Less(a, b)

LeadLimb(a) == CHOOSE j \in 1..Limbs : a[j] # 0 /\ \A k \in 1..(j - 1) : a[k] = 0

BitLen(x) == CHOOSE h \in 1..30 : 2 ^ (h - 1) <= x /\ x < 2 ^ h

\* number of bits from the leading 1 bit down to the end of the grid
SigBitsFrom(a, lead) == (Limbs - lead) * LimbBits + BitLen(a[lead])

SigBits(a) == SigBitsFrom(a, LeadLimb(a))

\* a pair of limbs after rounding away its `cut` lowest bits
RoundLow(low, cut, sticky) ==
  LET m    == 2 ^ cut
      rest == low % m
      up   == \/ 2 * rest > m
              \/ 2 * rest = m /\ (sticky \/ (low \div m) % 2 = 1)
  IN  low - rest + (IF up THEN m ELSE 0)

\* a with its w lowest limbs dropped and the pair above them replaced by low
RoundTo(a, w, low) ==
  CarryFrom(SubSeq(a, 1, Limbs - w - 2) \o <<low \div Base, low % Base>>
              \o [j \in 1..w |-> 0], Limbs, 0)

\* a rounded in its lowest `cut` bits: w whole limbs and some bits of the next
RoundAt(a, sticky, cut, w) ==
  RoundTo(a, w, RoundLow(a[Limbs - w - 1] * Base + a[Limbs - w],
                         cut - w * LimbBits,
                         sticky \/ \E j \in (Limbs - w + 1)..Limbs : a[j] # 0))

\* a, of sig significant bits, rounded to MantissaBits of them
RoundSig(a, sticky, sig) ==
  IF sig <= MantissaBits THEN a
  ELSE RoundAt(a, sticky, sig - MantissaBits, (sig - MantissaBits - 1) \div LimbBits)

\* round to the nearest double, ties to even
RoundDouble(a, sticky) == IF a = Zero THEN a ELSE RoundSig(a, sticky, SigBits(a))

\* the value NaN
NaN == <<-1>>

\* n / d for integers n >= 0, d > 0
RoundFix(q) == RoundDouble(q.bits, q.sticky)

NumDiv(n, d) == RoundFix(FixDiv(n, d))

\* x + y
NumAdd(x, y) == RoundDouble(AddBits(x, y), FALSE)

\* Math.abs(x - y)
NumAbsDiff(x, y) ==
  RoundDouble(IF Less(x, y) THEN SubBits(y, x) ELSE SubBits(x, y), FALSE)

\* x * c for an integer c >= 0
NumMulInt(x, c) == RoundDouble(MulBits(x, c), FALSE)

(***************************************************************************)
(* Strings are sequences of one-character strings.  The timestamps of the  *)
(* model are written with digits, ":" and ".", and "x" stands for any      *)
(* other character.                                                        *)
(***************************************************************************)
Digits == <<"0", "1", "2", "3", "4", "5", "6", "7", "8", "9">>

IsDigit(c) == \E d \in 1..10 : Digits[d] = c

DigitValue(c) == (CHOOSE d \in 1..10 : Digits[d] = c) - 1

RECURSIVE Split(_, _)
\* s.split(sep) for a one-character separator
Split(s, sep) ==
  IF \A k \in 1..Len(s) : s[k] # sep THEN <<s>>
  ELSE LET p == CHOOSE k \in 1..Len(s) : s[k] = sep /\ \A j \in 1..(k - 1) : s[j] # sep
       IN  <<SubSeq(s, 1, p - 1)>> \o Split(SubSeq(s, p + 1, Len(s)), sep)

RECURSIVE DigitsValue(_)
\* the integer written by a string of digits
DigitsValue(ds) ==
  IF ds = <<>> THEN 0
  ELSE 10 * DigitsValue(SubSeq(ds, 1, Len(ds) - 1)) + DigitValue(ds[Len(ds)])

\* a decimal numeral: digits with at most one ".", and at least one digit
IsDecimal(str) ==
  /\ \A k \in 1..Len(str) : IsDigit(str[k]) \/ str[k] = "."
  /\ Cardinality({k \in 1..Len(str) : str[k] = "."}) <= 1
  /\ \E k \in 1..Len(str) : IsDigit(str[k])

\* Number(str) is NaN: neither empty nor a decimal numeral
IsNaNString(str) == str # <<>> /\ ~IsDecimal(str)

\* the digits of a numeral with the "." taken out, and how many followed it
Mantissa(str) == DigitsValue(SelectSeq(str, IsDigit))

Scale(str) ==
  IF \E k \in 1..Len(str) : str[k] = "."
  THEN Len(str) - (CHOOSE k \in 1..Len(str) : str[k] = ".")
  ELSE 0

\* Number(str) as a double: "" is 0, a numeral its nearest double, else NaN
Number(str) ==
  IF str = <<>> THEN Zero
  ELSE IF ~IsDecimal(str) THEN NaN
  ELSE NumDiv(Mantissa(str), 10 ^ Scale(str))

RECURSIVE NumberToString(_)
\* String(n) for an integer n >= 0
NumberToString(n) ==
  IF n < 10 THEN <<Digits[n + 1]>>
  ELSE Append(NumberToString(n \div 10), Digits[(n % 10) + 1])

(***************************************************************************)
(* runDiarization: frame extraction, VAD filter, clustering, merge loop.   *)
(* The sample buffer is held as its length and the energy level of each    *)
(* complete frame; energies are counted in quarters of a log10 unit.       *)
(***************************************************************************)
VARIABLES
  pc,          \* where the call in progress stands
  options,     \* DiarizationOptions of the call: frameMs, numSpeakers, vadThreshold
  pcmLength,   \* pcm.length, in samples
  i,           \* loop variable of the running loop
  frames,      \* frames: sequence of [start, end, energy]
  voiced,      \* voiced: sequence of [start, end, energy, idx]
  labels,      \* clusters returned by kmeans, one label per voiced frame
  merged,      \* merged: sequence of [start, end, speaker]
  transcript,  \* assignSpeakersToTranscript: the lines passed in
  dia,         \* assignSpeakersToTranscript: the segments passed in
  aligned,     \* assignSpeakersToTranscript: what the call returned
  words,       \* the word-level transcript first handed to mergeWordLevelTranscript
  lines,       \* mergeWordLevelTranscript: the argument lines of the call
  mopts,       \* mergeWordLevelTranscript: the argument opts of the call
  buffer,      \* buffer: the text pieces of the line being built
  segStartMs,  \* segStartMs: null or a number
  segEndMs,    \* segEndMs: null or a number
  currentSpeaker,  \* currentSpeaker: undefined or a string
  mergedLines, \* merged of mergeWordLevelTranscript: the lines pushed so far
  flushedAt,   \* the positions i at which flush() pushed a line, in order
  pass,        \* 1 in the call on words, 2 in the call on the result of that call
  timeIn,      \* timeToMs / msToTime: the value first converted
  timeMid,     \* its conversion
  timeOut,     \* the conversion of timeMid back
  K,           \* runDiarization: null, or the K handed to kmeans
  sampleRate,  \* computeFrameEnergies: the argument sampleRate
  frameMs,     \* computeFrameEnergies: the argument frameMs
  multiplier,  \* computeVadThreshold: the argument multiplier, in halves
  threshold,   \* what computeVadThreshold returned
  reads,       \* per frame, the first and last index of pcm read for it
  version,     \* extractPCM16: which of its three texts runs
  tmpDirExists,  \* the directory made by mkdtempSync is on disk
  tmpExists,   \* the file tmp is on disk
  tmpSizeMB,   \* size of the file ffmpeg wrote, in megabytes
  handlers,    \* the process events cleanup is registered for
  extracted,   \* how the call of extractPCM16 ended
  wOptions,    \* whisper: the argument options
  wConfig,     \* whisper: what loadConfig returns, and the models on disk
  command,     \* whisper: null, or the command createCppCommand built
  wLines,      \* whisper: transcriptArray
  wSteps,      \* whisper: the steps taken on transcriptArray, in order
  wOutcome,    \* whisper: how the call settled
  cwd,         \* whisperShell: the working directory of the process
  dirStack,    \* whisperShell: the directories under the top of the shelljs stack
  calls,       \* whisperShell: per call, where it stands and its originalCwd
  responses,   \* downloadFile: the responses received so far, in order
  redirectCount,  \* downloadFile: redirectCount
  outClosed,   \* downloadFile: out.close() was called
  destExists,  \* downloadFile: the file dest is on disk
  written,     \* downloadFile: chunks of the body written to dest
  piped,       \* downloadFile: the state of out when res.pipe(out) ran
  settled      \* downloadFile: how the promise settled

diarVars == <<pc, options, pcmLength, i, frames, voiced, labels, merged>>

alignVars == <<transcript, dia, aligned>>

mergeVars ==
  <<words, lines, mopts, buffer, segStartMs, segEndMs, currentSpeaker,
    mergedLines, flushedAt, pass>>

timeVars == <<timeIn, timeMid, timeOut>>

vadVars == <<sampleRate, frameMs, multiplier, threshold, reads>>

pcmVars == <<version, tmpDirExists, tmpExists, tmpSizeMB, handlers, extracted>>

whisperVars == <<wOptions, wConfig, command, wLines, wSteps, wOutcome>>

shellVars == <<cwd, dirStack, calls>>

downloadVars ==
  <<responses, redirectCount, outClosed, destExists, written, piped, settled>>

lateVars == <<whisperVars, shellVars, downloadVars>>

\* everything but pc that the calls modelled first keep as state
earlyVars ==
  <<options, pcmLength, i, frames, voiced, labels, merged, K, alignVars,
    mergeVars, timeVars, vadVars, pcmVars>>

vars == <<diarVars, K, alignVars, mergeVars, timeVars, vadVars, pcmVars, lateVars>>

\* no diarization call is in progress
DiarIdle ==
  /\ options = <<>>
  /\ pcmLength = 0
  /\ frames = <<>>
  /\ voiced = <<>>
  /\ labels = <<>>
  /\ merged = <<>>
  /\ K = <<>>

\* no alignment call is in progress
AlignIdle ==
  /\ transcript = <<>>
  /\ dia = <<>>
  /\ aligned = <<>>

\* no merge call is in progress
MergeIdle ==
  /\ words = <<>>
  /\ lines = <<>>
  /\ mopts = <<>>
  /\ buffer = <<>>
  /\ segStartMs = <<>>
  /\ segEndMs = <<>>
  /\ currentSpeaker = <<>>
  /\ mergedLines = <<>>
  /\ flushedAt = <<>>
  /\ pass = 0

\* no timestamp conversion is in progress
TimeIdle == timeIn = <<>> /\ timeMid = <<>> /\ timeOut = <<>>

\* no call of the voice-activity functions is in progress
VadIdle ==
  /\ sampleRate = 0
  /\ frameMs = 0
  /\ multiplier = <<>>
  /\ threshold = <<>>
  /\ reads = <<>>

\* no call of extractPCM16 is in progress
PcmIdle ==
  /\ version = ""
  /\ tmpDirExists = FALSE
  /\ tmpExists = FALSE
  /\ tmpSizeMB = 0
  /\ handlers = {}
  /\ extracted = ""

\* no call of whisper is in progress
WhisperIdle ==
  /\ wOptions = <<>>
  /\ wConfig = <<>>
  /\ command = <<>>
  /\ wLines = <<>>
  /\ wSteps = <<>>
  /\ wOutcome = ""

\* no call of whisperShell is in progress
ShellIdle == cwd = "" /\ dirStack = <<>> /\ calls = <<>>

\* no call of downloadFile is in progress
DownloadIdle ==
  /\ responses = <<>>
  /\ redirectCount = 0
  /\ outClosed = FALSE
  /\ destExists = FALSE
  /\ written = 0
  /\ piped = ""
  /\ settled = ""

LateIdle == WhisperIdle /\ ShellIdle /\ DownloadIdle

\* bounds of the diarization model
MaxFrames == 7

MaxTailFrames == 2

TailSamples == 100

\* an optional value: null / undefined is <<>>, the value v is <<v>>
Null == <<>>

Some(v) == <<v>>

FrameMsValues == {10}

EnergyLevels == {-32, -16}

VadThresholdValues == {-24}

NumSpeakersValues == {1}

SAMPLE_RATE == 16000

DEFAULT_FRAME_MS == 20

MIN_SPEAKERS == 1

MAX_SPEAKERS == 6

SpeakerNames == <<"S0", "S1", "S2", "S3", "S4", "S5">>

\* spk = `S${label}`
Speaker(label) == SpeakerNames[label + 1]

Max(a, b) == IF a >= b THEN a ELSE b

Min(a, b) == IF a <= b THEN a ELSE b

\* options.frameMs ?? DEFAULT_FRAME_MS
FrameMs(o) == IF o.frameMs = Null THEN DEFAULT_FRAME_MS ELSE o.frameMs[1]

\* hop = Math.floor((sr * frameMs) / 1000)
Hop(o) == (SAMPLE_RATE * FrameMs(o)) \div 1000

\* frameMs / 1000
FrameDuration(o) == NumDiv(FrameMs(o), 1000)

\* (mutant) K taken from the options as it is
Unclamped(o) == IF o.numSpeakers = Null THEN 2 ELSE o.numSpeakers[1]

\* K = Math.max(MIN_SPEAKERS, Math.min(MAX_SPEAKERS, options.numSpeakers ?? 2))
SpeakerCount(o) ==
  Max(MIN_SPEAKERS,
      Min(MAX_SPEAKERS, IF o.numSpeakers = Null THEN 2 ELSE o.numSpeakers[1]))

Optional(S) == {Null} \cup {Some(v) : v \in S}

DiarOptions ==
  [frameMs : Optional(FrameMsValues), numSpeakers : Optional(NumSpeakersValues),
   vadThreshold : Optional(VadThresholdValues)]

\* buffer lengths: whole frames, and a few with a partial window at the end
PcmLengths(o) ==
  {n * Hop(o) : n \in 0..MaxFrames}
    \cup {n * Hop(o) + TailSamples : n \in 0..MaxTailFrames}

InitDiar ==
  /\ pc = "frames"
  /\ options \in DiarOptions
  /\ pcmLength \in PcmLengths(options)
  /\ i = 0
  /\ frames = <<>>
  /\ voiced = <<>>
  /\ labels = <<>>
  /\ merged = <<>>
  /\ K = Null
  /\ AlignIdle
  /\ MergeIdle
  /\ TimeIdle
  /\ VadIdle
  /\ PcmIdle
  /\ LateIdle

\* the frame pushed for the window that starts at sample i
Frame(o, at, energy) ==
  [start |-> NumDiv(at, SAMPLE_RATE),
   end |-> NumAdd(NumDiv(at, SAMPLE_RATE), FrameDuration(o)),
   energy |-> energy]

\* one iteration of: for (let i = 0; i + hop <= pcm.length; i += hop)
FrameStep ==
  /\ pc = "frames"
  /\ i + Hop(options) <= pcmLength
  /\ \E energy \in EnergyLevels : frames' = Append(frames, Frame(options, i, energy))
  /\ i' = i + Hop(options)
  /\ UNCHANGED <<pc, options, pcmLength, voiced, labels, merged, K>>
  /\ UNCHANGED <<alignVars, mergeVars, timeVars, vadVars, pcmVars, lateVars>>

RECURSIVE SortedInsert(_, _)
SortedInsert(sorted, x) ==
  IF sorted = <<>> \/ x < Head(sorted) THEN <<x>> \o sorted
  ELSE <<Head(sorted)>> \o SortedInsert(Tail(sorted), x)

\* (mutant) the numbers left in the order they come in
Unsorted(xs) == xs

RECURSIVE SortNumbers(_)
\* xs.slice().sort((x, y) => x - y)
SortNumbers(xs) ==
  IF xs = <<>> THEN <<>> ELSE SortedInsert(SortNumbers(Tail(xs)), Head(xs))

\* median of a non-empty list of energies; the halves of an even count are exact
median(xs) ==
  LET a == SortNumbers(xs)
      n == Len(a)
  IN  IF n % 2 = 1 THEN a[(n - 1) \div 2 + 1]
      ELSE (a[n \div 2] + a[n \div 2 + 1]) \div 2

\* (mutant) a threshold of half the median
HalfMedian(o, fs) ==
  IF o.vadThreshold = Null
  THEN median([k \in 1..Len(fs) |-> fs[k].energy]) \div 2
  ELSE o.vadThreshold[1]

\* thr = options.vadThreshold ?? med * DEFAULT_VAD_MULTIPLIER (1.5)
Threshold(o, fs) ==
  IF o.vadThreshold = Null
  THEN (3 * median([k \in 1..Len(fs) |-> fs[k].energy])) \div 2
  ELSE o.vadThreshold[1]

RECURSIVE FilterVoiced(_, _, _)
\* frames k..end with energy >= thr, each with its index in the frame list
FilterVoiced(fs, thr, k) ==
  IF k > Len(fs) THEN <<>>
  ELSE (IF fs[k].energy >= thr
        THEN <<[start |-> fs[k].start, end |-> fs[k].end,
                energy |-> fs[k].energy, idx |-> k - 1]>>
        ELSE <<>>) \o FilterVoiced(fs, thr, k + 1)

\* (mutant) the return for no voiced frame left out
AlwaysCluster(v) == "cluster"

\* if (voiced.length === 0) return { segments: [] }
AfterFilter(v) == IF Len(v) = 0 THEN "done" ELSE "cluster"

\* the frame loop is over: the empty check, the median, the threshold, the filter
VoiceActivity ==
  /\ pc = "frames"
  /\ ~(i + Hop(options) <= pcmLength)
  /\ IF Len(frames) = 0
     THEN pc' = "done" /\ voiced' = voiced
     ELSE /\ voiced' = FilterVoiced(frames, Threshold(options, frames), 1)
          /\ pc' = AfterFilter(voiced')
  /\ UNCHANGED <<options, pcmLength, i, frames, labels, merged, K>>
  /\ UNCHANGED <<alignVars, mergeVars, timeVars, vadVars, pcmVars, lateVars>>

\* (mutant) the difference taken to the frame just before in the unfiltered
\* list, found through idx
FeaturesOfNeighbours(v) ==
  [k \in 1..Len(v) |->
    <<v[k].energy,
      IF v[k].idx > 0 THEN v[k].energy - frames[v[k].idx].energy ELSE 0>>]

\* features[i] = [voiced[i].energy, voiced[i].energy - voiced[i - 1].energy],
\* with 0 as the difference of the first voiced frame
Features(v) ==
  [k \in 1..Len(v) |->
    <<v[k].energy, IF k > 1 THEN v[k].energy - v[k - 1].energy ELSE 0>>]

\* kmeans(features, K, ...): the library rejects K > number of points; its
\* labels depend on a random seeding, so any labelling in 0..K-1 can come back
Cluster ==
  /\ pc = "cluster"
  /\ IF SpeakerCount(options) > Len(Features(voiced))
     THEN pc' = "threw" /\ labels' = labels
     ELSE /\ labels' \in
               [DOMAIN Features(voiced) -> 0..(SpeakerCount(options) - 1)]
          /\ pc' = "merge"
  /\ K' = Some(SpeakerCount(options))
  /\ i' = 0
  /\ UNCHANGED <<options, pcmLength, frames, voiced, merged>>
  /\ UNCHANGED <<alignVars, mergeVars, timeVars, vadVars, pcmVars, lateVars>>

\* (mutant) the merge condition without its distance test
ExtendsAnyGap(o, last, s, spk) == last.speaker = spk

\* last.speaker === spk && Math.abs(s - last.end) <= frameMs / 1000
Extends(o, last, s, spk) ==
  last.speaker = spk /\ Leq(NumAbsDiff(s, last.end), FrameDuration(o))

\* (mutant) a merge loop that opens a segment for every voiced frame
AlwaysAppend(o, m, f, spk) ==
  Append(m, [start |-> f.start, end |-> f.end, speaker |-> spk])

\* the body of the merge loop for voiced frame f of speaker spk
MergeFrame(o, m, f, spk) ==
  IF m = <<>> THEN <<[start |-> f.start, end |-> f.end, speaker |-> spk]>>
  ELSE IF Extends(o, m[Len(m)], f.start, spk)
       THEN [m EXCEPT ![Len(m)].end = f.end]
       ELSE Append(m, [start |-> f.start, end |-> f.end, speaker |-> spk])

\* one iteration of: for (let i = 0; i < voiced.length; i++)
MergeStep ==
  /\ pc = "merge"
  /\ i < Len(voiced)
  /\ merged' = MergeFrame(options, merged, voiced[i + 1], Speaker(labels[i + 1]))
  /\ i' = i + 1
  /\ UNCHANGED <<pc, options, pcmLength, frames, voiced, labels, K>>
  /\ UNCHANGED <<alignVars, mergeVars, timeVars, vadVars, pcmVars, lateVars>>

\* return { segments: merged }
Return ==
  /\ pc = "merge"
  /\ i >= Len(voiced)
  /\ pc' = "done"
  /\ UNCHANGED <<options, pcmLength, i, frames, voiced, labels, merged, K>>
  /\ UNCHANGED <<alignVars, mergeVars, timeVars, vadVars, pcmVars, lateVars>>

NextDiar == FrameStep \/ VoiceActivity \/ Cluster \/ MergeStep \/ Return

\* bounds of the calls that vary numSpeakers
MaxNumSpeakers == 8

MaxSpeakerFrames == 3

\* calls of runDiarization with every integer numSpeakers of a range around
\* MIN_SPEAKERS..MAX_SPEAKERS, on short buffers
InitSpeakers ==
  /\ pc = "frames"
  /\ options \in
       [frameMs : {Null},
        numSpeakers : Optional((-MaxNumSpeakers)..MaxNumSpeakers),
        vadThreshold : Optional(VadThresholdValues)]
  /\ pcmLength \in {n * Hop(options) : n \in 0..MaxSpeakerFrames}
  /\ i = 0
  /\ frames = <<>>
  /\ voiced = <<>>
  /\ labels = <<>>
  /\ merged = <<>>
  /\ K = Null
  /\ AlignIdle
  /\ MergeIdle
  /\ TimeIdle
  /\ VadIdle
  /\ PcmIdle
  /\ LateIdle

(***************************************************************************)
(* assignSpeakersToTranscript.  A transcript line is [start, end, speech,  *)
(* speaker]; its speaker is an optional string.                            *)
(***************************************************************************)
\* bounds of the alignment model
MaxSegments == 2

\* x + y, x * c and the comparisons of JavaScript, where NaN may appear
JsAdd(x, y) == IF x = NaN \/ y = NaN THEN NaN ELSE NumAdd(x, y)

JsMulInt(x, c) == IF x = NaN THEN NaN ELSE NumMulInt(x, c)

JsLeq(x, y) == x # NaN /\ y # NaN /\ Leq(x, y)

JsGeq(x, y) == x # NaN /\ y # NaN /\ Leq(y, x)

\* const [hh, mm, rest] = ts.split(":"); rest.split(".") throws on undefined
ToSecondsThrows(ts) == Len(Split(ts, ":")) < 3

\* Number(ms || 0) / 1000, for the text ms after the "." (<<>> when there is none)
MilliPart(sub) ==
  IF Len(sub) < 2 \/ sub[2] = <<>> THEN Zero
  ELSE IF IsNaNString(sub[2]) THEN NaN
  ELSE NumDiv(Mantissa(sub[2]), 1000)

\* toSeconds(ts), for a ts with at least three ":" components
toSeconds(ts) ==
  LET hh  == Split(ts, ":")[1]
      mm  == Split(ts, ":")[2]
      sub == Split(Split(ts, ":")[3], ".")
  IN  JsAdd(JsAdd(JsAdd(JsMulInt(Number(hh), 3600), JsMulInt(Number(mm), 60)),
                  Number(sub[1])),
            MilliPart(sub))

\* (mutant) the overlap test with the boundaries counted in
OverlapsClosed(seg, s, e) ==
  ~((JsLeq(e, seg.start) /\ e # seg.start) \/ (JsGeq(s, seg.end) /\ s # seg.end))

\* !(e <= seg.start || s >= seg.end)
Overlaps(seg, s, e) == ~(JsLeq(e, seg.start) \/ JsGeq(s, seg.end))

RECURSIVE FindLast(_, _, _, _)
\* (mutant) the last overlapping segment instead of the first
FindLast(segs, s, e, k) ==
  IF k > Len(segs) THEN Null
  ELSE IF FindLast(segs, s, e, k + 1) # Null THEN FindLast(segs, s, e, k + 1)
  ELSE IF Overlaps(segs[k], s, e) THEN Some(segs[k].speaker) ELSE Null

RECURSIVE Find(_, _, _, _)
\* dia.segments.find(...)?.speaker, searching from position k
Find(segs, s, e, k) ==
  IF k > Len(segs) THEN Null
  ELSE IF Overlaps(segs[k], s, e) THEN Some(segs[k].speaker)
  ELSE Find(segs, s, e, k + 1)

\* { ...line, speaker: match?.speaker }
AssignLine(line, segs) ==
  [line EXCEPT !.speaker = Find(segs, toSeconds(line.start), toSeconds(line.end), 1)]

\* the call: it throws when a timestamp of some line makes toSeconds throw
assignSpeakersToTranscript(tr, d) ==
  IF \E k \in 1..Len(tr) :
       ToSecondsThrows(tr[k].start) \/ ToSecondsThrows(tr[k].end)
  THEN [threw |-> TRUE, lines |-> <<>>]
  ELSE [threw |-> FALSE, lines |-> [k \in 1..Len(tr) |-> AssignLine(tr[k], d)]]

\* the timestamps "00:00:00.000", "00:00:00.020", "00:00:00.040"
GoodStamps ==
  { <<"0", "0", ":", "0", "0", ":", "0", "0", ".", "0", "0", "0">>,
    <<"0", "0", ":", "0", "0", ":", "0", "0", ".", "0", "2", "0">>,
    <<"0", "0", ":", "0", "0", ":", "0", "0", ".", "0", "4", "0">> }

\* "0.020" (no ":"), "00:00:00" (no "."), "00:xx:00.020" (not a number)
BadStamps ==
  { <<"0", ".", "0", "2", "0">>,
    <<"0", "0", ":", "0", "0", ":", "0", "0">>,
    <<"0", "0", ":", "x", "x", ":", "0", "0", ".", "0", "2", "0">> }

AlignLines ==
  [start : GoodStamps \cup BadStamps, end : GoodStamps \cup BadStamps,
   speech : {<<"a">>}, speaker : Optional({"X"})]

\* two well-formed lines to stand next to any other line
RefLines ==
  { l \in AlignLines :
      /\ l.speaker = Null
      /\ l.start = <<"0", "0", ":", "0", "0", ":", "0", "0", ".", "0", "0", "0">>
      /\ l.end \in GoodStamps
      /\ l.end # l.start }

AlignTranscripts ==
  {<<l>> : l \in AlignLines}
    \cup {<<l, r>> : l \in AlignLines, r \in RefLines}
    \cup {<<r, l>> : l \in AlignLines, r \in RefLines}

\* segments as the merge loop makes them: from the start of a frame to the
\* end of a frame, at the default frame length
DefaultOptions == [frameMs |-> Null, numSpeakers |-> Null, vadThreshold |-> Null]

AlignSegments ==
  { [start |-> Frame(DefaultOptions, ab[1] * Hop(DefaultOptions), 0).start,
     end |-> Frame(DefaultOptions, ab[2] * Hop(DefaultOptions), 0).end,
     speaker |-> sp] : ab \in {<<0, 0>>, <<0, 1>>, <<1, 1>>}, sp \in {"S0", "S1"} }

AlignDias == UNION {[1..n -> AlignSegments] : n \in 0..MaxSegments}

InitAlign ==
  /\ pc = "align"
  /\ transcript \in AlignTranscripts
  /\ dia \in AlignDias
  /\ aligned = <<>>
  /\ i = 0
  /\ DiarIdle
  /\ VadIdle
  /\ PcmIdle
  /\ LateIdle
  /\ MergeIdle
  /\ TimeIdle

\* the whole call assignSpeakersToTranscript(transcript, dia)
AssignSpeakers ==
  /\ pc = "align"
  /\ aligned' = assignSpeakersToTranscript(transcript, dia)
  /\ pc' = "aligned"
  /\ UNCHANGED <<transcript, dia>>
  /\ UNCHANGED <<options, pcmLength, i, frames, voiced, labels, merged, K>>
  /\ UNCHANGED <<mergeVars, timeVars, vadVars, pcmVars, lateVars>>

NextAlign == AssignSpeakers

(***************************************************************************)
(* Timestamps: pad2, pad3, timeToMs, msToTime.                             *)
(***************************************************************************)
\* (mutant) no padding
pad2None(n) == NumberToString(n)

\* n < 10 ? "0" + String(n) : String(n)
pad2(n) == IF n < 10 THEN <<"0">> \o NumberToString(n) ELSE NumberToString(n)

\* (mutant) the milliseconds always printed as 000
pad3Zero(n) == <<"0", "0", "0">>

pad3(n) ==
  IF n < 10 THEN <<"0", "0">> \o NumberToString(n)
  ELSE IF n < 100 THEN <<"0">> \o NumberToString(n)
  ELSE NumberToString(n)

\* n || 0
OrZero(n) == IF n = NaN THEN Zero ELSE n

\* Number(part) || 0
NumberOrZero(str) == OrZero(Number(str))

\* Math.round(x) for a double x >= 0
MathRound(x) == x[1] + (IF x[2] >= Base \div 2 THEN 1 ELSE 0)

\* Math.round(totalSeconds * 1000) of the parts of t; the sum and the
\* products are JavaScript's, in doubles
PartsToMs(parts) ==
  IF Len(parts) # 3 THEN 0
  ELSE MathRound(NumMulInt(
         NumAdd(NumAdd(NumMulInt(NumberOrZero(parts[1]), 3600),
                       NumMulInt(NumberOrZero(parts[2]), 60)),
                NumberOrZero(parts[3])),
         1000))

timeToMs(t) == PartsToMs(Split(t, ":"))

\* hh:mm:ss.mmm of a count of milliseconds that is a whole number
TimeText(totalSeconds, milli) ==
  pad2(totalSeconds \div 3600) \o <<":">> \o pad2((totalSeconds % 3600) \div 60)
    \o <<":">> \o pad2(totalSeconds % 60) \o <<".">> \o pad3(milli)

\* msToTime(ms), for a whole number ms small enough that ms / 1000 and the
\* products are exact in doubles
msToTime(ms) ==
  IF ms < 0 THEN TimeText(0, 0)
  ELSE TimeText(ms \div 1000, ms - (ms \div 1000) * 1000)

\* the values converted: counts of milliseconds around the places where a
\* digit is added, and timestamps written out digit by digit
HourValues == {0, 9, 10, 100}

MinuteValues == {0, 59}

SecondValues == {0, 9, 59}

MilliValues == {0, 5, 50, 999}

MsValues ==
  { ((h * 60 + m) * 60 + sec) * 1000 + u :
      h \in HourValues, m \in MinuteValues, sec \in SecondValues, u \in MilliValues }

HourTexts == {<<"0", "0">>, <<"0", "9">>, <<"1", "0">>, <<"1", "0", "0">>, <<"0", "0", "7">>}

TwoDigitTexts == {<<"0", "0">>, <<"0", "9">>, <<"5", "9">>}

MilliTexts == {<<"0", "0", "0">>, <<"0", "0", "5">>, <<"0", "5", "0">>, <<"9", "9", "9">>}

TimeTexts ==
  { h \o <<":">> \o m \o <<":">> \o sec \o <<".">> \o u :
      h \in HourTexts, m \in TwoDigitTexts, sec \in TwoDigitTexts, u \in MilliTexts }

InitTime ==
  /\ pc = "time"
  /\ timeIn \in {[ms |-> v] : v \in MsValues} \cup {[t |-> v] : v \in TimeTexts}
  /\ timeMid = <<>>
  /\ timeOut = <<>>
  /\ i = 0
  /\ DiarIdle
  /\ VadIdle
  /\ PcmIdle
  /\ LateIdle
  /\ AlignIdle
  /\ MergeIdle

\* a call of msToTime: on the count first given, or on the count that
\* timeToMs has made of the timestamp first given
MsToTime ==
  /\ pc = "time"
  /\ \/ /\ DOMAIN timeIn = {"ms"}
        /\ timeMid = <<>>
        /\ timeMid' = Some(msToTime(timeIn.ms))
        /\ UNCHANGED timeOut
     \/ /\ DOMAIN timeIn = {"t"}
        /\ timeMid # <<>>
        /\ timeOut = <<>>
        /\ timeOut' = Some(msToTime(timeMid[1]))
        /\ UNCHANGED timeMid
  /\ UNCHANGED <<pc, timeIn, i>>
  /\ UNCHANGED <<options, pcmLength, frames, voiced, labels, merged, K>>
  /\ UNCHANGED <<alignVars, mergeVars, vadVars, pcmVars, lateVars>>

\* a call of timeToMs: on the timestamp first given, or on the timestamp
\* that msToTime has made of the count first given
TimeToMs ==
  /\ pc = "time"
  /\ \/ /\ DOMAIN timeIn = {"t"}
        /\ timeMid = <<>>
        /\ timeMid' = Some(timeToMs(timeIn.t))
        /\ UNCHANGED timeOut
     \/ /\ DOMAIN timeIn = {"ms"}
        /\ timeMid # <<>>
        /\ timeOut = <<>>
        /\ timeOut' = Some(timeToMs(timeMid[1]))
        /\ UNCHANGED timeMid
  /\ UNCHANGED <<pc, timeIn, i>>
  /\ UNCHANGED <<options, pcmLength, frames, voiced, labels, merged, K>>
  /\ UNCHANGED <<alignVars, mergeVars, vadVars, pcmVars, lateVars>>

NextTime == MsToTime \/ TimeToMs

(***************************************************************************)
(* mergeWordLevelTranscript.  A string is the sequence of its characters.  *)
(***************************************************************************)
\* bounds of the word-merge model
MaxWords == 3

WordMs == 100

\* the characters of the class in isPunctuation; the three that are not
\* ASCII (U+2013, U+2014, U+2026) and the three quotes are written by name
PunctuationChars ==
  {".", ",", "!", "?", ";", ":", "-", "en dash", "em dash", "ellipsis", "(", ")", "[", "]",
   "{", "}", "double quote", "apostrophe", "backtick"}

\* token consists of one or more characters of the class; false for ""
isPunctuation(token) ==
  token # <<>> /\ \A k \in 1..Len(token) : token[k] \in PunctuationChars

\* /[.!?]$/.test(token)
isEndSentencePunct(token) ==
  token # <<>> /\ token[Len(token)] \in {".", "!", "?"}

\* white space, as trim() removes it; all but the blank written by name
WhiteSpace == {" ", "tab", "line feed", "carriage return"}

RECURSIVE TrimStart(_)
TrimStart(str) ==
  IF str # <<>> /\ str[1] \in WhiteSpace THEN TrimStart(Tail(str)) ELSE str

RECURSIVE TrimEnd(_)
TrimEnd(str) ==
  IF str # <<>> /\ str[Len(str)] \in WhiteSpace
  THEN TrimEnd(SubSeq(str, 1, Len(str) - 1)) ELSE str

\* text.trim()
Trim(str) == TrimEnd(TrimStart(str))

RECURSIVE Join(_)
\* buffer.join("")
Join(buf) == IF buf = <<>> THEN <<>> ELSE buf[1] \o Join(Tail(buf))

\* a value that JavaScript takes for true in a condition: a non-empty string
Truthy(v) == v # Null /\ v[1] # ""

\* opts?.maxGapMs ?? 600
MaxGapMs(o) == IF o.maxGapMs = Null THEN 600 ELSE o.maxGapMs[1]

\* opts?.maxCharsPerSegment ?? 320
MaxChars(o) == IF o.maxCharsPerSegment = Null THEN 320 ELSE o.maxCharsPerSegment[1]

\* (mutant) the start of the newest word
NewestSegStart(seg, curStart) == Some(curStart)

\* if (segStartMs === null) segStartMs = curStart
NextSegStart(seg, curStart) == IF seg = Null THEN Some(curStart) ELSE seg

\* (mutant) the speaker of the newest word that has one
LatestSpeaker(current, cur) == IF Truthy(cur.speaker) THEN cur.speaker ELSE current

\* if (!currentSpeaker && cur.speaker) currentSpeaker = cur.speaker
NextSpeaker(current, cur) ==
  IF ~Truthy(current) /\ Truthy(cur.speaker) THEN cur.speaker ELSE current

\* (mutant) a blank before every token but the first
PieceSpaced(buf, token) == IF Len(buf) = 0 THEN token ELSE <<" ">> \o token

\* what is pushed on the buffer for a token: the token itself when the
\* buffer is empty or the token is punctuation, else " " + token
Piece(buf, token) ==
  IF Len(buf) = 0 THEN token
  ELSE IF isPunctuation(token) THEN token
  ELSE <<" ">> \o token

\* (mutant) a break when the gap reaches maxGapMs
GapAtLeast(gap, maxGap) == gap >= maxGap

\* gapBreak = gap > maxGapMs
GapBreak(gap, maxGap) == gap > maxGap

\* the item that flush() pushes
Item(startMs, endMs, buf, speaker) ==
  [start |-> msToTime(startMs), end |-> msToTime(endMs), speech |-> Trim(Join(buf)),
   speaker |-> IF Truthy(speaker) THEN speaker ELSE Null]

\* a timestamp below ten seconds, as whisper.cpp writes it; ms is a whole
\* number of milliseconds
Stamp(ms) ==
  <<"0", "0", ":", "0", "0", ":", "0", Digits[(ms \div 1000) + 1], ".",
    Digits[((ms \div 100) % 10) + 1], Digits[((ms \div 10) % 10) + 1],
    Digits[(ms % 10) + 1]>>

\* the word-level inputs: each word WordMs long, the pause before it one of
\* WordGaps, its text and its speaker one of those given
WordGaps == {600, 700}

WordTexts == {<<"a">>, <<",">>, <<"a", ".">>, <<" ", "a">>}

RECURSIVE WordEnd(_, _)
\* the end, in ms, of word k of the choices c; the first word starts at 0
WordEnd(c, k) == IF k = 0 THEN 0 - c[1].gap ELSE WordEnd(c, k - 1) + c[k].gap + WordMs

WordLines(c) ==
  [k \in 1..Len(c) |->
     [start |-> Stamp(WordEnd(c, k) - WordMs), end |-> Stamp(WordEnd(c, k)),
      speech |-> c[k].speech, speaker |-> c[k].speaker]]

\* the transcripts of up to MaxWords words made of the given choices
Transcripts(choices) ==
  {<<>>} \cup {WordLines(c) : c \in UNION {[1..n -> choices] : n \in 1..MaxWords}}

\* all texts and all pauses, one speaker
WordInputs ==
  Transcripts([speech : WordTexts, speaker : {Null, Some("S0")}, gap : WordGaps])

\* all speakers, among them the empty string
SpeakerInputs ==
  Transcripts([speech : {<<"a">>, <<"a", ".">>},
               speaker : {Null, Some(""), Some("S0"), Some("S1")}, gap : {600}])

MergeOptions == [maxGapMs : Optional({700}), maxCharsPerSegment : Optional({2})]

\* the start of a call of mergeWordLevelTranscript on one of the inputs
InitMergeOn(inputs) ==
  /\ pc = "words"
  /\ words \in inputs
  /\ lines = words
  /\ mopts \in MergeOptions
  /\ i = 0
  /\ buffer = <<>>
  /\ segStartMs = Null
  /\ segEndMs = Null
  /\ currentSpeaker = Null
  /\ mergedLines = <<>>
  /\ flushedAt = <<>>
  /\ pass = 1
  /\ DiarIdle
  /\ VadIdle
  /\ PcmIdle
  /\ LateIdle
  /\ AlignIdle
  /\ TimeIdle

InitMerge == InitMergeOn(WordInputs)

InitMergeSpeakers == InitMergeOn(SpeakerInputs)

\* one turn of the loop for the word cur, whose times and whose distance to
\* the next word are given; flush() pushes whenever it is called here, the
\* buffer having just been pushed on and segStartMs, segEndMs just been set
MergeTurn(cur, curStart, curEnd, hasNext, gap, buf) ==
  IF \/ isEndSentencePunct(cur.speech)
     \/ hasNext /\ GapBreak(gap, MaxGapMs(mopts))
     \/ Len(Join(buf)) >= MaxChars(mopts)
     \/ ~hasNext
  THEN /\ mergedLines' =
            Append(mergedLines,
                   Item(NextSegStart(segStartMs, curStart)[1], curEnd, buf,
                        NextSpeaker(currentSpeaker, cur)))
       /\ flushedAt' = Append(flushedAt, i + 1)
       /\ buffer' = <<>>
       /\ segStartMs' = Null
       /\ segEndMs' = Null
       /\ currentSpeaker' = Null
  ELSE /\ buffer' = buf
       /\ segStartMs' = NextSegStart(segStartMs, curStart)
       /\ segEndMs' = Some(curEnd)
       /\ currentSpeaker' = NextSpeaker(currentSpeaker, cur)
       /\ UNCHANGED <<mergedLines, flushedAt>>

\* the body of the loop for lines[i]
MergeWord ==
  /\ pc = "words"
  /\ i < Len(lines)
  /\ MergeTurn(lines[i + 1], timeToMs(lines[i + 1].start), timeToMs(lines[i + 1].end),
               i + 2 <= Len(lines),
               IF i + 2 <= Len(lines)
               THEN timeToMs(lines[i + 2].start) - timeToMs(lines[i + 1].end) ELSE 0,
               Append(buffer, Piece(buffer, lines[i + 1].speech)))
  /\ i' = i + 1
  /\ UNCHANGED <<pc, words, lines, mopts, pass>>
  /\ UNCHANGED <<options, pcmLength, frames, voiced, labels, merged, K>>
  /\ UNCHANGED <<alignVars, timeVars, vadVars, pcmVars, lateVars>>

\* return merged; an empty lines returns [] at once
MergeReturn ==
  /\ pc = "words"
  /\ i = Len(lines)
  /\ pc' = "merged"
  /\ UNCHANGED <<i, mergeVars>>
  /\ UNCHANGED <<options, pcmLength, frames, voiced, labels, merged, K>>
  /\ UNCHANGED <<alignVars, timeVars, vadVars, pcmVars, lateVars>>

\* the caller hands the result of the call on words to a second call, with
\* the same options
MergeAgain ==
  /\ pc = "merged"
  /\ pass = 1
  /\ pc' = "words"
  /\ pass' = 2
  /\ lines' = mergedLines
  /\ i' = 0
  /\ buffer' = <<>>
  /\ segStartMs' = Null
  /\ segEndMs' = Null
  /\ currentSpeaker' = Null
  /\ mergedLines' = <<>>
  /\ flushedAt' = <<>>
  /\ UNCHANGED <<words, mopts>>
  /\ UNCHANGED <<options, pcmLength, frames, voiced, labels, merged, K>>
  /\ UNCHANGED <<alignVars, timeVars, vadVars, pcmVars, lateVars>>

NextMerge == MergeWord \/ MergeReturn \/ MergeAgain

(***************************************************************************)
(* Claims about the merge loop.                                            *)
(***************************************************************************)
\* the time range of f lies inside the time range of g
Inside(f, g) == Leq(g.start, f.start) /\ Leq(f.end, g.end)

\* frame k (1-based position in frames) was rejected by the VAD filter
Rejected(k) == \A j \in 1..Len(voiced) : voiced[j].idx # k - 1

\* C1: the segments returned by runDiarization are sorted by start, pairwise
\* non-overlapping (segment[i].end <= segment[i+1].start), and every voiced
\* frame's range lies inside exactly one segment.
C1_SegmentsDisjoint ==
  pc = "done" =>
    /\ \A k \in 1..(Len(merged) - 1) :
         /\ Leq(merged[k].start, merged[k + 1].start)
         /\ Leq(merged[k].end, merged[k + 1].start)
    /\ \A j \in 1..Len(voiced) :
         Cardinality({k \in 1..Len(merged) : Inside(voiced[j], merged[k])}) = 1

\* C2 (as claimed): the union of the returned segments equals the union of
\* the voiced frames: every voiced frame lies in a segment and no segment
\* covers a frame that the VAD filter rejected.
C2_UnionEqualsVoiced ==
  pc = "done" =>
    /\ \A j \in 1..Len(voiced) : \E k \in 1..Len(merged) : Inside(voiced[j], merged[k])
    /\ \A k \in 1..Len(frames) :
         Rejected(k) => \A g \in 1..Len(merged) : ~Inside(frames[k], merged[g])

\* voiced frames j and j + 1 satisfy the merge condition of the loop
Joined(j) ==
  /\ labels[j] = labels[j + 1]
  /\ Leq(NumAbsDiff(voiced[j + 1].start, voiced[j].end), FrameDuration(options))

\* C2 (amended): the segments cover every voiced frame; each segment runs
\* from the start of a voiced frame to the end of a later one, all of one
\* label, consecutive ones no further apart than frameMs / 1000; two
\* consecutive voiced frames that close lie in one segment, together with
\* whatever rejected frame lies between them, and two that do not are the
\* end of one segment and the start of the next.
C2_SegmentsBridgeOneFrame ==
  pc = "done" =>
    /\ \A j \in 1..Len(voiced) : \E k \in 1..Len(merged) : Inside(voiced[j], merged[k])
    /\ \A k \in 1..Len(merged) :
         \E a \in 1..Len(voiced), b \in 1..Len(voiced) :
           /\ a <= b
           /\ merged[k].start = voiced[a].start
           /\ merged[k].end = voiced[b].end
           /\ merged[k].speaker = Speaker(labels[a])
           /\ \A j \in a..(b - 1) : Joined(j)
    /\ \A j \in 1..(Len(voiced) - 1) :
         Joined(j) =>
           \E k \in 1..Len(merged) :
             Inside(voiced[j], merged[k]) /\ Inside(voiced[j + 1], merged[k])
    /\ \A j \in 1..(Len(voiced) - 1) :
         ~Joined(j) =>
           \E k \in 1..(Len(merged) - 1) :
             merged[k].end = voiced[j].end /\ merged[k + 1].start = voiced[j + 1].start

\* a rejected frame lies inside a returned segment
C2_Witness ==
  /\ pc = "done"
  /\ \E k \in 1..Len(frames), g \in 1..Len(merged) :
       Rejected(k) /\ Inside(frames[k], merged[g])

(***************************************************************************)
(* Claims about assignSpeakersToTranscript.                                *)
(***************************************************************************)
\* the times of line k of the transcript
LineStart(k) == toSeconds(transcript[k].start)

LineEnd(k) == toSeconds(transcript[k].end)

\* the positions of the segments that satisfy NOT (e <= seg.start OR s >= seg.end)
HitsOf(s, e) == {j \in 1..Len(dia) : ~(JsLeq(e, dia[j].start) \/ JsGeq(s, dia[j].end))}

Hits(k) == HitsOf(LineStart(k), LineEnd(k))

\* line k came out with the speaker of the first of the segments hits, with
\* none when there is no hit
FirstOf(k, hits) ==
  /\ (aligned.lines[k].speaker = Null) <=> (hits = {})
  /\ hits # {} =>
       aligned.lines[k].speaker =
         Some(dia[CHOOSE j \in hits : \A h \in hits : j <= h].speaker)

\* the time two ranges share, 0 when they do not meet
Earlier(x, y) == IF Less(y, x) THEN y ELSE x

Later(x, y) == IF Less(x, y) THEN y ELSE x

Shared(a, b, c, d) ==
  IF Less(Earlier(b, d), Later(a, c)) THEN Zero
  ELSE NumAbsDiff(Earlier(b, d), Later(a, c))

\* C3: a call that returns gives each line the speaker of the lowest-index
\* segment with NOT (e <= seg.start OR s >= seg.end), and no speaker exactly
\* when no segment satisfies it, whatever speaker the input line carried;
\* start, end and speech of the line are kept.
C3_FirstOverlapWins ==
  (pc = "aligned" /\ ~aligned.threw) =>
    /\ Len(aligned.lines) = Len(transcript)
    /\ \A k \in 1..Len(transcript) :
         /\ aligned.lines[k].start = transcript[k].start
         /\ aligned.lines[k].end = transcript[k].end
         /\ aligned.lines[k].speech = transcript[k].speech
         /\ FirstOf(k, Hits(k))

\* one line that carried a speaker overlaps nothing and comes out without a
\* speaker; another overlaps two segments of different speakers, the second
\* for longer, and comes out with the speaker of the first
C3_Witness ==
  /\ pc = "aligned"
  /\ ~aligned.threw
  /\ \E k \in 1..Len(transcript) :
       /\ transcript[k].speaker # Null
       /\ transcript[k].start \in GoodStamps
       /\ transcript[k].end \in GoodStamps
       /\ dia # <<>>
       /\ aligned.lines[k].speaker = Null
  /\ \E k \in 1..Len(transcript) :
       /\ transcript[k].start \in GoodStamps
       /\ transcript[k].end \in GoodStamps
       /\ Hits(k) = {1, 2}
       /\ dia[1].speaker # dia[2].speaker
       /\ Less(Shared(LineStart(k), LineEnd(k), dia[1].start, dia[1].end),
               Shared(LineStart(k), LineEnd(k), dia[2].start, dia[2].end))
       /\ aligned.lines[k].speaker = Some(dia[1].speaker)

\* no two segments of dia share more than a boundary point
NonOverlapping ==
  \A a \in 1..Len(dia), b \in 1..Len(dia) :
    a # b => Leq(dia[a].end, dia[b].start) \/ Leq(dia[b].end, dia[a].start)

\* the range [s, e] lies in segment j: seg.start <= s <= e <= seg.end
Within(s, e, j) == JsLeq(dia[j].start, s) /\ JsLeq(s, e) /\ JsLeq(e, dia[j].end)

Contained(k, j) == Within(LineStart(k), LineEnd(k), j)

\* the range [s, e] has no duration and sits on the start or on the end of
\* segment j
Touches(s, e, j) == s = e /\ (s = dia[j].start \/ s = dia[j].end)

OnBoundary(k, j) == Touches(LineStart(k), LineEnd(k), j)

\* C4 (as claimed): in a pairwise non-overlapping segment list, a line
\* contained in a segment gets that segment's speaker, zero-duration lines
\* and lines on the segment boundary included.
C4_ContainedLineInherits ==
  (pc = "aligned" /\ ~aligned.threw /\ NonOverlapping) =>
    \A k \in 1..Len(transcript), j \in 1..Len(dia) :
      Contained(k, j) => aligned.lines[k].speaker = Some(dia[j].speaker)

\* C4 (amended): in a pairwise non-overlapping segment list, a line contained
\* in a segment gets that segment's speaker unless it is a zero-duration line
\* sitting exactly on the segment's start or end; such a line gets no
\* speaker.
C4_ContainedLineInheritsOffBoundary ==
  (pc = "aligned" /\ ~aligned.threw /\ NonOverlapping) =>
    \A k \in 1..Len(transcript), j \in 1..Len(dia) :
      Contained(k, j) =>
        IF OnBoundary(k, j)
        THEN aligned.lines[k].speaker = Null
        ELSE aligned.lines[k].speaker = Some(dia[j].speaker)

\* two touching segments of different speakers; a zero-duration line strictly
\* inside the first and a line filling the second exactly both get their
\* segment's speaker, and a zero-duration line on the shared boundary gets none
C4_Witness ==
  /\ pc = "aligned"
  /\ ~aligned.threw
  /\ NonOverlapping
  /\ Len(dia) = 2
  /\ dia[1].speaker # dia[2].speaker
  /\ \E k \in 1..Len(transcript) :
       /\ Contained(k, 2)
       /\ LineStart(k) = dia[2].start
       /\ LineEnd(k) = dia[2].end
       /\ aligned.lines[k].speaker = Some(dia[2].speaker)
  /\ \E k \in 1..Len(transcript) :
       /\ Contained(k, 1)
       /\ LineStart(k) = LineEnd(k)
       /\ \/ /\ Less(dia[1].start, LineStart(k))
             /\ Less(LineEnd(k), dia[1].end)
             /\ aligned.lines[k].speaker = Some(dia[1].speaker)
          \/ /\ OnBoundary(k, 1)
             /\ aligned.lines[k].speaker = Null

\* C5: a line with a malformed start or end timestamp does not make the call
\* throw, gets no speaker from any segment, and every other line is aligned
\* as if the malformed line were not there.
C5_MalformedMatchesNothing ==
  pc = "aligned" =>
    /\ ~aligned.threw
    /\ \A k \in 1..Len(transcript) :
         IF transcript[k].start \in BadStamps \/ transcript[k].end \in BadStamps
         THEN aligned.lines[k].speaker = Null
         ELSE FirstOf(k, Hits(k))

(***************************************************************************)
(* Claims about mergeWordLevelTranscript, for the call on lines once it    *)
(* has returned.                                                           *)
(***************************************************************************)
\* the first and the last word of the run that became merged line j
RunFirst(j) == IF j = 1 THEN 1 ELSE flushedAt[j - 1] + 1

RunLast(j) == flushedAt[j]

\* the positions after which a line was closed
Closed == {flushedAt[j] : j \in 1..Len(flushedAt)}

\* the first word of the run that word k belongs to
RunStart(k) ==
  IF \E f \in Closed : f < k
  THEN 1 + (CHOOSE f \in Closed : f < k /\ \A g \in Closed : g < k => g <= f)
  ELSE 1

RECURSIVE RunText(_, _)
\* the text of the words a..b: the first as it is, a punctuation token
\* appended as it is, any other token after one blank
RunText(a, b) ==
  IF b < a THEN <<>>
  ELSE IF b = a THEN lines[a].speech
  ELSE RunText(a, b - 1)
         \o (IF isPunctuation(lines[b].speech) THEN <<>> ELSE <<" ">>)
         \o lines[b].speech

EndsSentence(k) ==
  /\ lines[k].speech # <<>>
  /\ lines[k].speech[Len(lines[k].speech)] \in {".", "!", "?"}

\* the pause between word k and word k + 1, in ms
Pause(k) == timeToMs(lines[k + 1].start) - timeToMs(lines[k].end)

\* C6: the line being built is closed after word k if and only if word k
\* ends with ".", "!" or "?", or the pause before the next word is strictly
\* greater than maxGapMs, or the joined untrimmed text has reached
\* maxCharsPerSegment characters, or word k is the last word; so inside one
\* merged line no word but the last ends a sentence, no pause exceeds
\* maxGapMs and the text before the last word is shorter than
\* maxCharsPerSegment.
C6_ClosedExactlyWhenDue ==
  pc = "merged" =>
    /\ \A k \in 1..Len(lines) :
         k \in Closed <=>
           \/ EndsSentence(k)
           \/ k < Len(lines) /\ Pause(k) > MaxGapMs(mopts)
           \/ Len(RunText(RunStart(k), k)) >= MaxChars(mopts)
           \/ k = Len(lines)
    /\ \A j \in 1..Len(flushedAt) :
         /\ \A k \in RunFirst(j)..(RunLast(j) - 1) :
              ~EndsSentence(k) /\ Pause(k) <= MaxGapMs(mopts)
         /\ RunFirst(j) < RunLast(j) =>
              Len(RunText(RunFirst(j), RunLast(j) - 1)) < MaxChars(mopts)

\* three words under the default options: the pause after the first is
\* exactly maxGapMs and the line goes on, the pause after the second is
\* longer and alone closes the line
C6_Witness ==
  /\ pc = "merged"
  /\ pass = 1
  /\ Len(lines) = 3
  /\ mopts.maxGapMs = Null
  /\ mopts.maxCharsPerSegment = Null
  /\ ~EndsSentence(1)
  /\ ~EndsSentence(2)
  /\ Pause(1) = MaxGapMs(mopts)
  /\ Pause(2) > MaxGapMs(mopts)
  /\ flushedAt = <<2, 3>>

\* C7: the closed runs are consecutive and cover the words in order, each
\* word in exactly one; there are no more merged lines than words; line j
\* has the start of the first word of its run, the end of the last, and the
\* trimmed text of the run; an empty input gives an empty output.
C7_RunsPartitionWords ==
  pc = "merged" =>
    /\ Len(mergedLines) = Len(flushedAt)
    /\ Len(mergedLines) <= Len(lines)
    /\ lines = <<>> => mergedLines = <<>>
    /\ lines # <<>> => flushedAt # <<>> /\ flushedAt[Len(flushedAt)] = Len(lines)
    /\ \A j \in 1..Len(flushedAt) :
         /\ RunFirst(j) <= RunLast(j)
         /\ mergedLines[j].start = lines[RunFirst(j)].start
         /\ mergedLines[j].end = lines[RunLast(j)].end
         /\ mergedLines[j].speech = Trim(RunText(RunFirst(j), RunLast(j)))

\* three words merged into a line of two words and a line of one
C7_Witness ==
  /\ pc = "merged"
  /\ pass = 1
  /\ Len(lines) = 3
  /\ flushedAt = <<2, 3>>
  /\ Len(mergedLines) = 2
  /\ mergedLines[1].start = lines[1].start
  /\ mergedLines[1].end = lines[2].end
  /\ lines[1].start # lines[2].start

\* the words of run j that have a non-empty speaker
Speaking(j) == {k \in RunFirst(j)..RunLast(j) : Truthy(lines[k].speaker)}

\* C8: a merged line carries the speaker of the first word of its own run
\* that has a non-empty speaker, and none when no word of the run has one.
C8_FirstSpeakerOfRun ==
  pc = "merged" =>
    \A j \in 1..Len(flushedAt) :
      IF Speaking(j) = {} THEN mergedLines[j].speaker = Null
      ELSE mergedLines[j].speaker =
             lines[CHOOSE k \in Speaking(j) : \A h \in Speaking(j) : k <= h].speaker

\* a line of two words with different speakers carries the first, and the
\* line after it, whose word has no speaker, carries none
C8_Witness ==
  /\ pc = "merged"
  /\ pass = 1
  /\ flushedAt = <<2, 3>>
  /\ Truthy(lines[1].speaker)
  /\ Truthy(lines[2].speaker)
  /\ lines[1].speaker # lines[2].speaker
  /\ lines[3].speaker = Null
  /\ mergedLines[1].speaker = lines[1].speaker
  /\ mergedLines[2].speaker = Null

\* C9 (as claimed): for every input and all options, the call on the result
\* of a call returns that result, line for line.
C9_Idempotent == (pc = "merged" /\ pass = 2) => mergedLines = lines

\* a text that is not empty and neither starts nor ends with white space
Clean(text) ==
  /\ text # <<>>
  /\ text[1] \notin WhiteSpace
  /\ text[Len(text)] \notin WhiteSpace

\* C9 (amended): when the text of every input word is non-empty and has no
\* white space at its start or end, the call on the result of a call returns
\* that result, line for line.
C9_IdempotentOnCleanWords ==
  (pc = "merged" /\ pass = 2 /\ \A k \in 1..Len(words) : Clean(words[k].speech)) =>
    mergedLines = lines

\* three clean words were merged into two lines, which the second call
\* returned as they were
C9_Witness ==
  /\ pc = "merged"
  /\ pass = 2
  /\ Len(words) = 3
  /\ \A k \in 1..Len(words) : Clean(words[k].speech)
  /\ Len(lines) = 2
  /\ mergedLines = lines

(***************************************************************************)
(* Claims about timeToMs and msToTime.                                     *)
(***************************************************************************)
\* text is written with exactly n digits
DigitText(text, n) == Len(text) = n /\ \A k \in 1..n : IsDigit(text[k])

\* t has two or more hour digits, two minute digits below 60, two second
\* digits below 60 and three millisecond digits
WellFormed(t) ==
  /\ Len(Split(t, ":")) = 3
  /\ Len(Split(t, ":")[1]) >= 2
  /\ \A k \in 1..Len(Split(t, ":")[1]) : IsDigit(Split(t, ":")[1][k])
  /\ DigitText(Split(t, ":")[2], 2)
  /\ DigitsValue(Split(t, ":")[2]) < 60
  /\ Len(Split(Split(t, ":")[3], ".")) = 2
  /\ DigitText(Split(Split(t, ":")[3], ".")[1], 2)
  /\ DigitsValue(Split(Split(t, ":")[3], ".")[1]) < 60
  /\ DigitText(Split(Split(t, ":")[3], ".")[2], 3)

\* the hours of t are written without a needless leading zero
ShortestHours(t) == Len(Split(t, ":")[1]) = 2 \/ t[1] # "0"

\* C10 (as claimed): timeToMs(msToTime(ms)) = ms for every count ms >= 0,
\* msToTime(timeToMs(t)) = t for every well-formed t, and what msToTime
\* returns is well-formed.
C10_RoundTrip ==
  /\ (DOMAIN timeIn = {"ms"} /\ timeMid # <<>>) => WellFormed(timeMid[1])
  /\ (DOMAIN timeIn = {"ms"} /\ timeOut # <<>>) => timeOut[1] = timeIn.ms
  /\ (DOMAIN timeIn = {"t"} /\ timeOut # <<>> /\ WellFormed(timeIn.t)) =>
       timeOut[1] = timeIn.t /\ WellFormed(timeOut[1])

\* C10 (amended): timeToMs(msToTime(ms)) = ms for every count ms >= 0,
\* msToTime(timeToMs(t)) = t for every well-formed t whose hours have two
\* digits or do not start with 0, and what msToTime returns is well-formed
\* with hours of that kind.
C10_RoundTripShortestHours ==
  /\ (DOMAIN timeIn = {"ms"} /\ timeMid # <<>>) =>
       WellFormed(timeMid[1]) /\ ShortestHours(timeMid[1])
  /\ (DOMAIN timeIn = {"ms"} /\ timeOut # <<>>) => timeOut[1] = timeIn.ms
  /\ (DOMAIN timeIn = {"t"} /\ timeOut # <<>>) =>
       /\ WellFormed(timeOut[1]) /\ ShortestHours(timeOut[1])
       /\ (WellFormed(timeIn.t) /\ ShortestHours(timeIn.t)) => timeOut[1] = timeIn.t

\* a timestamp of three hour digits has gone to a count and come back
C10_Witness ==
  /\ pc = "time"
  /\ DOMAIN timeIn = {"t"}
  /\ WellFormed(timeIn.t)
  /\ Len(Split(timeIn.t, ":")[1]) = 3
  /\ timeIn.t[1] # "0"
  /\ timeMid # <<>>
  /\ timeMid[1] > 0
  /\ timeOut = Some(timeIn.t)

\* C11: when the buffer holds no complete frame, or no frame has an energy at
\* or above the threshold, runDiarization returns no segment, raises nothing,
\* and kmeans was never called
C11_EmptyWithoutClustering ==
  (pc # "frames" /\ (frames = <<>> \/ voiced = <<>>)) =>
    (pc = "done" /\ merged = <<>> /\ labels = <<>> /\ K = Null)

\* frames were cut, none of them is voiced, and the call has returned
C11_Witness ==
  /\ pc = "done"
  /\ Len(frames) >= 2
  /\ voiced = <<>>
  /\ merged = <<>>

\* the speakers named in the segments returned
SpeakersUsed == {merged[j].speaker : j \in 1..Len(merged)}

\* C12: when fewer voiced frames than K remain, runDiarization does not throw
\* and returns segments that use fewer than K speaker labels
C12_FewFramesNoThrow ==
  /\ pc # "threw"
  /\ (pc = "done" /\ K # Null /\ Len(voiced) < K[1]) =>
       Cardinality(SpeakersUsed) < K[1]

\* C13: for every integer numSpeakers the K handed to kmeans is
\* min(6, max(1, numSpeakers)), and no value stops the call before kmeans
C13_KClamped ==
  /\ (pc = "cluster") => ENABLED Cluster
  /\ (pc \in {"merge", "threw"}) => K # Null
  /\ (K # Null /\ options.numSpeakers # Null) =>
       K[1] = Min(6, Max(1, options.numSpeakers[1]))

\* a numSpeakers below 1 was taken as K = 1 and the call returned segments
C13_Witness ==
  /\ pc = "done"
  /\ options.numSpeakers # Null
  /\ options.numSpeakers[1] < 1
  /\ K = Some(1)
  /\ merged # <<>>

\* estimateK(X, kMin, kMax) of the clustering design: the first k of kMin..kMax
\* with the least inertia. With clusters that fit best the inertia falls with
\* every further cluster until each distinct point has its own, where it is 0
estimateK(X, kMin, kMax) ==
  Min(kMax, Max(kMin, Cardinality({X[k] : k \in DOMAIN X})))

\* C14: when numSpeakers is null or omitted, the K handed to kmeans is the one
\* estimated from the features over 2..6, not one value for every input
C14_KEstimated ==
  (K # Null /\ options.numSpeakers = Null) =>
    K[1] = estimateK(Features(voiced), 2, 6)

\* ---- the voice-activity functions: computeFrameEnergies,
\* ---- computeVadThreshold, filterVoicedFrames

\* bounds of the calls of the voice-activity functions
MaxVadFrames == 3

MaxTurns == 6

\* DEFAULT_VAD_MULTIPLIER: 1.5, counted in halves
DEFAULT_VAD_MULTIPLIER == 3

\* (mutant) the hop rounded up
HopCeil(sr, ms) == (sr * ms + 999) \div 1000

\* hop = Math.floor((sampleRate * frameMs) / 1000)
VadHop(sr, ms) == (sr * ms) \div 1000

InitVad ==
  /\ pc = "energies"
  /\ sampleRate \in {16000, 22050}
  /\ frameMs \in {0, 20, 25}
  /\ pcmLength \in
       {n * VadHop(sampleRate, frameMs) + t :
          n \in 0..MaxVadFrames, t \in {0, TailSamples}}
  /\ multiplier \in Optional({2, 3, 4})  \* 1, 1.5 and 2, counted in halves
  /\ threshold = Null
  /\ reads = <<>>
  /\ i = 0
  /\ frames = <<>>
  /\ voiced = <<>>
  /\ options = <<>>
  /\ labels = <<>>
  /\ merged = <<>>
  /\ K = Null
  /\ AlignIdle
  /\ MergeIdle
  /\ TimeIdle
  /\ PcmIdle
  /\ LateIdle

\* energy = Math.log10(MIN_ENERGY_OFFSET + sum / hop): sum / hop is 0 / 0 when
\* hop is 0, and the logarithm of NaN is NaN
FrameEnergies(hop) == IF hop = 0 THEN {NaN} ELSE EnergyLevels

\* one iteration of: for (let i = 0; i + hop <= pcm.length; i += hop); the
\* inner loop reads pcm[i + j] for j < hop. A loop that does not advance is
\* followed for MaxTurns iterations
ComputeFrame ==
  /\ pc = "energies"
  /\ i + VadHop(sampleRate, frameMs) <= pcmLength
  /\ Len(frames) < MaxTurns
  /\ \E energy \in FrameEnergies(VadHop(sampleRate, frameMs)) :
       frames' = Append(frames,
         [start |-> NumDiv(i, sampleRate),
          end |-> NumAdd(NumDiv(i, sampleRate), NumDiv(frameMs, 1000)),
          energy |-> energy])
  /\ reads' = Append(reads, <<i, i + VadHop(sampleRate, frameMs) - 1>>)
  /\ i' = i + VadHop(sampleRate, frameMs)
  /\ UNCHANGED <<pc, options, pcmLength, voiced, labels, merged, K>>
  /\ UNCHANGED <<sampleRate, frameMs, multiplier, threshold>>
  /\ UNCHANGED <<alignVars, mergeVars, timeVars, pcmVars, lateVars>>

\* the loop condition fails: return frames
FramesReturn ==
  /\ pc = "energies"
  /\ ~(i + VadHop(sampleRate, frameMs) <= pcmLength)
  /\ pc' = "threshold"
  /\ UNCHANGED <<options, pcmLength, i, frames, voiced, labels, merged, K>>
  /\ UNCHANGED <<alignVars, mergeVars, timeVars, vadVars, pcmVars, lateVars>>

\* a threshold is <<x>> for the number x, and <<1, 0>> for
\* Number.POSITIVE_INFINITY
PositiveInfinity == <<1, 0>>

\* const energies = new Array(frames.length), filled from the frames
Energies(fs) == [k \in 1..Len(fs) |-> fs[k].energy]

\* computeVadThreshold(frames, multiplier = DEFAULT_VAD_MULTIPLIER)
computeVadThreshold(fs, mult) ==
  IF Len(fs) = 0 THEN PositiveInfinity
  ELSE <<(median(Energies(fs))
            * (IF mult = Null THEN DEFAULT_VAD_MULTIPLIER ELSE mult[1]))
          \div 2>>

ThresholdCall ==
  /\ pc = "threshold"
  /\ threshold' = computeVadThreshold(frames, multiplier)
  /\ pc' = "filter"
  /\ UNCHANGED <<options, pcmLength, i, frames, voiced, labels, merged, K>>
  /\ UNCHANGED <<sampleRate, frameMs, multiplier, reads>>
  /\ UNCHANGED <<alignVars, mergeVars, timeVars, pcmVars, lateVars>>

\* (mutant) the comparison without equality
Above(energy, thr) == Len(thr) = 1 /\ energy > thr[1]

\* frames[i].energy >= threshold; no energy reaches +Infinity
AtLeast(energy, thr) == Len(thr) = 1 /\ energy >= thr[1]

RECURSIVE filterVoicedFrames(_, _, _)
\* filterVoicedFrames(frames, threshold): its loop from frame k on
filterVoicedFrames(fs, thr, k) ==
  IF k > Len(fs) THEN <<>>
  ELSE (IF AtLeast(fs[k].energy, thr)
        THEN <<[start |-> fs[k].start, end |-> fs[k].end,
                energy |-> fs[k].energy, idx |-> k - 1]>>
        ELSE <<>>) \o filterVoicedFrames(fs, thr, k + 1)

FilterCall ==
  /\ pc = "filter"
  /\ voiced' = filterVoicedFrames(frames, threshold, 1)
  /\ pc' = "filtered"
  /\ UNCHANGED <<options, pcmLength, i, frames, labels, merged, K>>
  /\ UNCHANGED <<alignVars, mergeVars, timeVars, vadVars, pcmVars, lateVars>>

NextVad == ComputeFrame \/ FramesReturn \/ ThresholdCall \/ FilterCall

\* C15: the frame loop ends for every buffer and every frameMs, hop 0
\* included: it never takes more iterations than the buffer has samples
C15_FrameLoopBounded == Len(frames) <= pcmLength

\* frame k (counted from 0) of fs has an energy at or above the threshold thr
Passes(fs, thr, k) == thr # PositiveInfinity /\ fs[k + 1].energy >= thr[1]

\* v holds exactly the frames of fs that pass, each once, in the order of fs,
\* each with its position in fs as idx
VoicedExactly(fs, thr, v) ==
  /\ \A j \in 1..Len(v) :
       /\ v[j].idx \in 0..(Len(fs) - 1)
       /\ Passes(fs, thr, v[j].idx)
       /\ v[j].start = fs[v[j].idx + 1].start
       /\ v[j].end = fs[v[j].idx + 1].end
       /\ v[j].energy = fs[v[j].idx + 1].energy
  /\ \A j \in 1..(Len(v) - 1) : v[j].idx < v[j + 1].idx
  /\ \A k \in 0..(Len(fs) - 1) :
       Passes(fs, thr, k) => \E j \in 1..Len(v) : v[j].idx = k

\* C16: filterVoicedFrames returns exactly the frames with energy >= threshold
\* in their order, idx strictly increasing and equal to the position in the
\* input, none twice, none left out, and the input list is left as it was
C16_FilterExact ==
  [][(pc = "filter" /\ pc' = "filtered") =>
       (frames' = frames /\ VoicedExactly(frames, threshold, voiced'))]_vars

\* frames 0 and 2 sit exactly on the threshold and were kept, frame 1 is below
C16_Witness ==
  /\ pc = "filtered"
  /\ Len(frames) = 3
  /\ Len(voiced) = 2
  /\ voiced[1].idx = 0
  /\ voiced[2].idx = 2
  /\ threshold = <<frames[1].energy>>
  /\ frames[2].energy < frames[1].energy

\* the k-th smallest of the numbers xs, found by counting
KthSmallest(xs, k) ==
  CHOOSE v \in {xs[j] : j \in DOMAIN xs} :
    /\ Cardinality({j \in DOMAIN xs : xs[j] < v}) < k
    /\ Cardinality({j \in DOMAIN xs : xs[j] <= v}) >= k

\* twice the median of xs: twice the middle number for an odd count, the sum
\* of the two middle numbers for an even count
TwiceMiddle(xs) ==
  IF Len(xs) % 2 = 1 THEN 2 * KthSmallest(xs, (Len(xs) + 1) \div 2)
  ELSE KthSmallest(xs, Len(xs) \div 2) + KthSmallest(xs, Len(xs) \div 2 + 1)

\* the multiplier of the call, in halves
Halves(mult) == IF mult = Null THEN 3 ELSE mult[1]

\* thr is what the claim asks for on the frames fs: +infinity for no frame,
\* else the multiplier times the median (thr[1] = (halves / 2) * (twice / 2))
ThresholdAsClaimed(fs, mult, thr) ==
  IF Len(fs) = 0 THEN thr = PositiveInfinity
  ELSE Len(thr) = 1 /\ 4 * thr[1] = Halves(mult) * TwiceMiddle(Energies(fs))

\* the frames fs in the order p
Reordered(fs, p) == [k \in 1..Len(fs) |-> fs[p[k]]]

\* C17: computeVadThreshold returns +infinity for an empty list and otherwise
\* the multiplier times the median of the energies (middle of a sorted copy,
\* or mean of the two middle ones); every reordering of the frames gives the
\* same result, and the list passed in is left as it was
C17_ThresholdIsScaledMedian ==
  [][(pc = "threshold" /\ pc' = "filter") =>
       /\ frames' = frames
       /\ ThresholdAsClaimed(frames, multiplier, threshold')
       /\ \A p \in Permutations(1..Len(frames)) :
            computeVadThreshold(Reordered(frames, p), multiplier) = threshold']_vars

\* three frames that are not in the order of their energies, and a threshold
\* of 1.5 times the middle energy
C17_Witness ==
  /\ pc = "filter"
  /\ Len(frames) = 3
  /\ frames[1].energy > frames[2].energy
  /\ frames[3].energy > frames[2].energy
  /\ multiplier = Null
  /\ threshold = <<(3 * frames[1].energy) \div 2>>

\* floor(sampleRate * frameMs / 1000), the hop the claims speak of
ClaimedHop == (sampleRate * frameMs) \div 1000

\* the frame loop of computeFrameEnergies is over, and the hop was at least 1
FramesCut == pc \in {"threshold", "filter", "filtered"} /\ ClaimedHop >= 1

\* floor(n / hop) frames, frame k read from samples k*hop .. k*hop+hop-1 only,
\* all of them inside the buffer
WholeFramesOnly ==
  /\ Len(frames) = pcmLength \div ClaimedHop
  /\ Len(reads) = Len(frames)
  /\ \A k \in 0..(Len(frames) - 1) :
       /\ reads[k + 1] = <<k * ClaimedHop, k * ClaimedHop + ClaimedHop - 1>>
       /\ reads[k + 1][2] < pcmLength

\* C18: for hop >= 1 computeFrameEnergies emits floor(n / hop) frames, frame k
\* reads samples k*hop .. k*hop+hop-1 only (all below n), the samples after
\* the last whole frame are dropped, and end - start = frameMs / 1000 for
\* every frame
C18_FramesExact ==
  FramesCut =>
    /\ WholeFramesOnly
    /\ \A k \in 1..Len(frames) :
         NumAbsDiff(frames[k].end, frames[k].start) = NumDiv(frameMs, 1000)

\* 2^-54: half a unit in the last place of a double between 1/2 and 1
HalfUlpBelowOne == [j \in 1..Limbs |-> IF j = 5 THEN 64 ELSE 0] \o <<>>

\* the distance of x and y, not rounded
Distance(x, y) == IF Less(x, y) THEN SubBits(y, x) ELSE SubBits(x, y)

\* C18 (amended): the frame count, the samples read and the dropped tail are
\* as above; end is start + frameMs / 1000 rounded to a double, so end - start
\* is frameMs / 1000 up to that rounding (half a unit in the last place of
\* end), and exactly frameMs / 1000 for the frame that starts at 0
C18_FramesExactUpToRounding ==
  FramesCut =>
    /\ WholeFramesOnly
    /\ \A k \in 1..Len(frames) :
         /\ Less(frames[k].end, NumDiv(1, 1))
         /\ Leq(frames[k].start, frames[k].end)
         /\ Leq(Distance(Distance(frames[k].end, frames[k].start),
                         NumDiv(frameMs, 1000)),
                HalfUlpBelowOne)
    /\ Len(frames) >= 1 => frames[1].end = NumDiv(frameMs, 1000)

\* three frames and a dropped tail; the third frame's end - start, computed
\* in doubles, is not frameMs / 1000
C18_Witness ==
  /\ FramesCut
  /\ Len(frames) = 3
  /\ pcmLength > 3 * ClaimedHop
  /\ NumAbsDiff(frames[3].end, frames[3].start) # NumDiv(frameMs, 1000)

\* C19: the frames of computeFrameEnergies are strictly increasing in time
\* and do not overlap: frame[k].start < frame[k+1].start and
\* frame[k].end <= frame[k+1].start, also when sampleRate * frameMs is not a
\* multiple of 1000
C19_FramesDisjoint ==
  FramesCut =>
    \A k \in 1..(Len(frames) - 1) :
      /\ Less(frames[k].start, frames[k + 1].start)
      /\ Leq(frames[k].end, frames[k + 1].start)

\* ---- extractPCM16: the temporary directory and file of one call

\* the three texts of extractPCM16: core/diarization.ts has no size test and
\* cleans up after a successful read only; core/vad.ts and the later
\* diarization module ("part_003") clean up in a finally block
HasFinally(v) == v # "diarization.ts"

\* the state after mkdtempSync and, in the later texts, process.once(...)
InitPcm ==
  /\ pc = "ffmpeg"
  /\ version \in {"diarization.ts", "vad.ts", "part_003"}
  /\ tmpDirExists = TRUE
  /\ tmpExists = FALSE
  /\ tmpSizeMB = 0
  /\ handlers = IF HasFinally(version) THEN {"exit", "SIGINT", "SIGTERM"} ELSE {}
  /\ extracted = ""
  /\ i = 0
  /\ DiarIdle
  /\ AlignIdle
  /\ MergeIdle
  /\ TimeIdle
  /\ VadIdle
  /\ LateIdle

\* where a throw leads: into the finally block, or straight out of the call
AfterThrow(v) == IF HasFinally(v) THEN "cleanup" ELSE "exited"

\* await of the ffmpeg promise: "end" resolves it with tmp written (of a size
\* in megabytes below, at or above the limit), "error" rejects it, with or
\* without a partly written tmp
RunFfmpeg ==
  /\ pc = "ffmpeg"
  /\ \/ /\ tmpExists' = TRUE
        /\ tmpSizeMB' \in {0, 100, 200, 300, 400, 500, 501, 600}
        /\ pc' = IF HasFinally(version) THEN "stat" ELSE "read"
        /\ UNCHANGED extracted
     \/ /\ tmpExists' \in BOOLEAN
        /\ extracted' = "threw"
        /\ pc' = AfterThrow(version)
        /\ UNCHANGED tmpSizeMB
  /\ UNCHANGED <<version, tmpDirExists, handlers, i>>
  /\ UNCHANGED <<options, pcmLength, frames, voiced, labels, merged, K>>
  /\ UNCHANGED <<alignVars, mergeVars, timeVars, vadVars, lateVars>>

\* if (tmpSizeMB > 500) throw new Error(...)
CheckSize ==
  /\ pc = "stat"
  /\ IF tmpSizeMB > 500
     THEN extracted' = "threw" /\ pc' = AfterThrow(version)
     ELSE extracted' = extracted /\ pc' = "read"
  /\ UNCHANGED <<version, tmpDirExists, tmpExists, tmpSizeMB, handlers, i>>
  /\ UNCHANGED <<options, pcmLength, frames, voiced, labels, merged, K>>
  /\ UNCHANGED <<alignVars, mergeVars, timeVars, vadVars, lateVars>>

\* fs.readFileSync(tmp) and the conversion: the read succeeds or throws
ReadFile ==
  /\ pc = "read"
  /\ \/ extracted' = "returned" /\ pc' = "cleanup"
     \/ extracted' = "threw" /\ pc' = AfterThrow(version)
  /\ UNCHANGED <<version, tmpDirExists, tmpExists, tmpSizeMB, handlers, i>>
  /\ UNCHANGED <<options, pcmLength, frames, voiced, labels, merged, K>>
  /\ UNCHANGED <<alignVars, mergeVars, timeVars, vadVars, lateVars>>

\* cleanup(), or the two try / catch lines of core/diarization.ts: unlinkSync
\* and rmdirSync each succeed or throw, a throw is caught and at most logged;
\* rmdirSync throws on a directory that still holds tmp
Cleanup ==
  /\ pc = "cleanup"
  /\ \E unlinked \in BOOLEAN, removed \in BOOLEAN :
       /\ tmpExists' = (tmpExists /\ ~unlinked)
       /\ tmpDirExists' = ~(removed /\ ~tmpExists')
  /\ handlers' = IF version = "part_003" THEN {} ELSE handlers
  /\ pc' = "exited"
  /\ UNCHANGED <<version, tmpSizeMB, extracted, i>>
  /\ UNCHANGED <<options, pcmLength, frames, voiced, labels, merged, K>>
  /\ UNCHANGED <<alignVars, mergeVars, timeVars, vadVars, lateVars>>

NextPcm == RunFfmpeg \/ CheckSize \/ ReadFile \/ Cleanup

\* C20: once extractPCM16 has finished, on every exit path (decoded, ffmpeg
\* error, file above 500 MB, read failure), neither the temporary file nor
\* the temporary directory of the call exists
C20_TempRemoved == (pc = "exited") => (~tmpExists /\ ~tmpDirExists)

\* C29: the 'exit', 'SIGINT' and 'SIGTERM' listeners that extractPCM16
\* registers are scoped to the call: once the call has finished, on any
\* path, none of them is still attached to the process
C29_ListenersScoped == (pc = "exited") => (handlers = {})

\* the energies of the frames of the call, in order
FrameEnergyList == [k \in 1..Len(frames) |-> frames[k].energy]

\* C30: without vadThreshold and with a median energy <= 0, every frame whose
\* energy is at least the median is voiced, so at least half of the frames
\* are voiced and a non-empty frame list never takes the return for no
\* voiced frame
C30_MedianFramesVoiced ==
  (/\ pc # "frames"
   /\ frames # <<>>
   /\ options.vadThreshold = Null
   /\ TwiceMiddle(FrameEnergyList) <= 0) =>
    /\ \A k \in 1..Len(frames) :
         2 * frames[k].energy >= TwiceMiddle(FrameEnergyList) =>
           \E j \in 1..Len(voiced) : voiced[j].idx = k - 1
    /\ 2 * Len(voiced) >= Len(frames)
    /\ voiced # <<>>

\* three frames, the median among the louder two: the quiet one is dropped
C30_Witness ==
  /\ pc = "cluster"
  /\ options.vadThreshold = Null
  /\ Len(frames) = 3
  /\ Len(voiced) = 2
  /\ TwiceMiddle(FrameEnergyList) <= 0

\* the positions j of voiced after which a segment ends: the label changes
\* or the next frame starts more than one frame duration from the end of
\* frame j
Breaks == {j \in 1..(Len(voiced) - 1) : ~Joined(j)}

\* voiced frames a..b are a maximal run without a position of br
MaximalRun(br, a, b) ==
  /\ a <= b
  /\ \A j \in a..(b - 1) : j \notin br
  /\ a = 1 \/ (a - 1) \in br
  /\ b = Len(voiced) \/ b \in br

\* merged holds one segment per maximal run between the positions br
RunsAreSegments(br) ==
  /\ Len(merged) = 1 + Cardinality(br)
  /\ \A a \in 1..Len(voiced), b \in 1..Len(voiced) :
       MaximalRun(br, a, b) =>
         \E k \in 1..Len(merged) :
           /\ k = 1 + Cardinality({j \in br : j < a})
           /\ merged[k] = [start |-> voiced[a].start, end |-> voiced[b].end,
                           speaker |-> Speaker(labels[a])]

\* what one iteration of the merge loop does to merged for the voiced frame f
\* of speaker spk, as the claim words it
MergedAsClaimed(m, f, spk, after) ==
  IF m = <<>>
  THEN after = <<[start |-> f.start, end |-> f.end, speaker |-> spk]>>
  ELSE IF /\ m[Len(m)].speaker = spk
          /\ Leq(NumAbsDiff(f.start, m[Len(m)].end), FrameDuration(options))
       THEN /\ Len(after) = Len(m)
            /\ \A k \in 1..(Len(m) - 1) : after[k] = m[k]
            /\ after[Len(m)].start = m[Len(m)].start
            /\ after[Len(m)].speaker = spk
            /\ after[Len(m)].end = f.end
       ELSE /\ Len(after) = Len(m) + 1
            /\ \A k \in 1..Len(m) : after[k] = m[k]
            /\ after[Len(m) + 1] = [start |-> f.start, end |-> f.end, speaker |-> spk]

\* the merge loop has run over all voiced frames
MergeLoopDone == pc = "done" /\ voiced # <<>> /\ Len(labels) = Len(voiced)

\* C24: the merge loop extends the last segment exactly when the label of the
\* frame is the speaker of the last segment and |frame.start - last.end| <=
\* frameMs / 1000, and appends a segment otherwise; so there is one segment
\* more than there are positions where the label changes or the gap exceeds
\* one frame duration, every maximal run of frames without such a position
\* is one segment from its first start to its last end, and a frame between
\* two such positions is a segment of its own
C24_MergeLoopRuns ==
  /\ [][(pc = "merge" /\ i' = i + 1) =>
          MergedAsClaimed(merged, voiced[i + 1], Speaker(labels[i + 1]), merged')]_vars
  /\ [](MergeLoopDone => RunsAreSegments(Breaks))

\* three segments: a run of two frames, a frame of the same label further
\* than one frame duration behind it, and a frame of another label
C24_Witness ==
  /\ MergeLoopDone
  /\ Len(merged) = 3
  /\ Len(voiced) = 4
  /\ MaximalRun(Breaks, 1, 2)
  /\ labels[3] = labels[2]
  /\ labels[4] # labels[3]

\* the voiced frames with their idx field set to 0
WithoutIdx == [k \in 1..Len(voiced) |-> [voiced[k] EXCEPT !.idx = 0]]

\* C26: there is one feature vector per voiced frame, in order: the energy
\* of the frame and its difference to the energy of the voiced frame before
\* it, whatever lies between the two, 0 for the first; idx is not read
C26_FeaturesOfVoiced ==
  K # Null =>
    /\ Len(Features(voiced)) = Len(voiced)
    /\ \A k \in 1..Len(voiced) :
         /\ Features(voiced)[k][1] = voiced[k].energy
         /\ Features(voiced)[k][2] =
              IF k = 1 THEN 0 ELSE voiced[k].energy - voiced[k - 1].energy
    /\ Features(WithoutIdx) = Features(voiced)

\* rejected frames lie between two voiced ones, and the first frame is not voiced
C26_Witness ==
  /\ K # Null
  /\ Len(voiced) >= 2
  /\ voiced[1].idx > 0
  /\ voiced[2].idx > voiced[1].idx + 1

\* the text so far with the token appended as the claim words it: no blank
\* before the first token of a line or a punctuation-only token, one blank
\* before any other
Appended(text, first, token) ==
  text \o (IF first \/ isPunctuation(token) THEN <<>> ELSE <<" ">>) \o token

\* the characters of str that are not blanks, in order
NonBlank(str) == SelectSeq(str, LAMBDA ch : ch # " ")

RECURSIVE WordsNonBlank(_, _)
\* the non-blank characters of the words a..b, in input order
WordsNonBlank(a, b) ==
  IF b < a THEN <<>> ELSE WordsNonBlank(a, b - 1) \o NonBlank(lines[b].speech)

\* C25: the text of a merged line grows word by word: the first word of the
\* line and every punctuation-only word are appended with no blank, every
\* other word after exactly one blank; the line gets that text with its ends
\* trimmed, and its characters are those of its words in input order
C25_TextOfLine ==
  /\ [][(pc = "words" /\ i' = i + 1) =>
          IF Len(mergedLines') > Len(mergedLines)
          THEN mergedLines'[Len(mergedLines')].speech =
                 Trim(Appended(Join(buffer), buffer = <<>>, lines[i + 1].speech))
          ELSE Join(buffer') =
                 Appended(Join(buffer), buffer = <<>>, lines[i + 1].speech)]_vars
  /\ [](pc = "merged" =>
          \A j \in 1..Len(flushedAt) :
            NonBlank(mergedLines[j].speech) = WordsNonBlank(RunFirst(j), RunLast(j)))

\* one line of three words: a word, a comma right after it, a word after a blank
C25_Witness ==
  /\ pc = "merged"
  /\ pass = 1
  /\ Len(lines) = 3
  /\ Len(mergedLines) = 1
  /\ mergedLines[1].speech = <<"a", ",", " ", "a">>

(***************************************************************************)
(* whisper(filePath, options): loadConfig, the effective options,          *)
(* createCppCommand, the shell, parseTranscript, the merge of word-level   *)
(* lines and the optional diarization.                                     *)
(***************************************************************************)
DEFAULT_MODEL == "base.en"

\* the names of MODELS_LIST that the calls use
ListedModels == {"tiny", "base", "base.en"}

\* MODELS_LIST[name] for a listed name, and the guess ggml-<alias>.bin
GgmlFile(name) ==
  CASE name = "tiny" -> "ggml-tiny.bin"
    [] name = "base" -> "ggml-base.bin"
    [] name = "base.en" -> "ggml-base.en.bin"
    [] OTHER -> "ggml-nope.bin"

\* a ?? b
Coalesce(a, b) == IF a # Null THEN a ELSE b

\* effectiveOptions: each model field from the caller or else from the
\* config file, whisperOptions the config's overwritten key by key with the
\* caller's; the earlier text of whisper() leaves diarization out
EffectiveOptions(o, cfg) ==
  [modelName |-> Coalesce(o.modelName, cfg.modelName),
   modelPath |-> Coalesce(o.modelPath, cfg.modelPath),
   whisperOptions |->
     [timestamp_size |-> Coalesce(o.timestamp_size, cfg.timestamp_size),
      word_timestamps |-> Coalesce(o.word_timestamps, cfg.word_timestamps),
      language |-> Coalesce(o.language, cfg.language)],
   diarization |-> IF cfg.text = "current" THEN o.enabled ELSE Null]

\* modelPathOrName(mn, mp) with the files on disk: <<"throw", message>> or
\* <<"model">> followed by the path
modelPathOrName(text, mn, mp, files) ==
  IF Truthy(mn) /\ Truthy(mp) THEN <<"throw", "NOT BOTH">>
  ELSE IF ~Truthy(mn) /\ ~Truthy(mp)
  THEN IF GgmlFile(DEFAULT_MODEL) \in files
       THEN <<"model", "models", GgmlFile(DEFAULT_MODEL)>>
       ELSE <<"throw", "model not found">>
  ELSE IF Truthy(mp) THEN <<"model", mp[1]>>
  ELSE IF mn[1] \in ListedModels
  THEN IF GgmlFile(mn[1]) \in files
       THEN <<"model", "models", GgmlFile(mn[1])>>
       ELSE <<"throw", "model not found">>
  ELSE IF text = "current" /\ GgmlFile(mn[1]) \in files
  THEN <<"model", "models", GgmlFile(mn[1])>>
  ELSE <<"throw", "model not found">>

\* flags.timestamp_size && flags.word_timestamps
BothTimestampFlags(flags) ==
  /\ flags.timestamp_size # Null
  /\ flags.timestamp_size[1] # 0
  /\ flags.word_timestamps # Null
  /\ flags.word_timestamps[1]

\* getFlags(flags): <<"throw", message>> or <<"flags">> followed by the
\* words of the flags; the output-file flags and no_timestamps are left unset
getFlags(flags) ==
  IF BothTimestampFlags(flags) THEN <<"throw", "invalid option pair">>
  ELSE <<"flags">>
         \o (IF flags.word_timestamps # Null /\ flags.word_timestamps[1]
             THEN <<"-ml", "1">> ELSE <<>>)
         \o (IF flags.timestamp_size # Null
             THEN <<"-ml", Digits[flags.timestamp_size[1] + 1]>> ELSE <<>>)
         \o (IF Truthy(flags.language) THEN <<"-l", flags.language[1]>> ELSE <<>>)

\* createCppCommand: the current text resolves the model and then builds the
\* flags, the earlier one evaluates getFlags first; the prepared file passes
\* validateFilePath
createCppCommand(text, eff, files) ==
  LET model == modelPathOrName(text, eff.modelName, eff.modelPath, files)
      flags == getFlags(eff.whisperOptions)
  IN  IF text = "current" /\ model[1] = "throw" THEN model
      ELSE IF flags[1] = "throw" THEN flags
      ELSE IF model[1] = "throw" THEN model
      ELSE <<"./main">> \o Tail(flags) \o <<"-m">> \o Tail(model)
             \o <<"-f", "prepared.wav">>

\* a line of the standard output of whisper.cpp: "[start --> end]" and a
\* text behind it, or a line of another form
RawLine(k, text) ==
  [stamped |-> TRUE, start |-> Stamp((k - 1) * 2 * WordMs),
   end |-> Stamp((k - 1) * 2 * WordMs + WordMs), text |-> text]

JunkLine == [stamped |-> FALSE, start |-> <<>>, end |-> <<>>, text |-> <<"x">>]

\* the four words "a", "a", "a", "a." as whisper.cpp prints them
FourWords ==
  <<RawLine(1, <<" ", " ", "a">>), RawLine(2, <<" ", " ", "a">>),
    RawLine(3, <<" ", " ", "a">>), RawLine(4, <<" ", " ", "a", ".">>)>>

\* what the shell writes: nothing, two sentences, four words, four words
\* and a sentence, four words among a line of another form and a line with
\* no text, a line whose start "0.020" has no ":"
ShellOutputs ==
  { <<>>,
    <<RawLine(1, <<" ", " ", "a", " ", "a", ".">>), RawLine(2, <<" ", " ", "a", " ", "a">>)>>,
    FourWords,
    Append(FourWords, RawLine(5, <<" ", " ", "a", " ", "a">>)),
    <<JunkLine>> \o FourWords \o <<RawLine(5, <<" ", " ">>)>>,
    <<[RawLine(1, <<" ", " ", "a", " ", "a">>) EXCEPT !.start = <<"0", ".", "0", "2", "0">>]>> }

RECURSIVE parseTranscript(_)
\* parseTranscript(vtt): the stamped lines with a text, in order, the text
\* without the blanks around it
parseTranscript(raw) ==
  IF raw = <<>> THEN <<>>
  ELSE (IF Head(raw).stamped /\ Trim(Head(raw).text) # <<>>
        THEN <<[start |-> Head(raw).start, end |-> Head(raw).end,
                speech |-> Trim(Head(raw).text), speaker |-> Null]>>
        ELSE <<>>) \o parseTranscript(Tail(raw))

\* wordLike / lines.length > 0.8 for at least four lines
looksLikeWordLevelTranscript(ls) ==
  /\ Len(ls) >= 4
  /\ 10 * Cardinality({k \in 1..Len(ls) :
                         \A c \in 1..Len(ls[k].speech) : ls[k].speech[c] \notin WhiteSpace})
       > 8 * Len(ls)

NoMergeOptions == [maxGapMs |-> Null, maxCharsPerSegment |-> Null]

RECURSIVE MergeFrom(_, _, _, _, _, _)
\* the loop of mergeWordLevelTranscript(ls) from line k on, under the
\* default options
MergeFrom(ls, k, buf, segStart, spk, out) ==
  IF k > Len(ls) THEN out
  ELSE IF \/ isEndSentencePunct(ls[k].speech)
          \/ k < Len(ls) /\ GapBreak(timeToMs(ls[k + 1].start) - timeToMs(ls[k].end),
                                     MaxGapMs(NoMergeOptions))
          \/ Len(Join(Append(buf, Piece(buf, ls[k].speech)))) >= MaxChars(NoMergeOptions)
          \/ k = Len(ls)
       THEN MergeFrom(ls, k + 1, <<>>, Null, Null,
                      Append(out, Item(NextSegStart(segStart, timeToMs(ls[k].start))[1],
                                       timeToMs(ls[k].end),
                                       Append(buf, Piece(buf, ls[k].speech)),
                                       NextSpeaker(spk, ls[k]))))
       ELSE MergeFrom(ls, k + 1, Append(buf, Piece(buf, ls[k].speech)),
                      NextSegStart(segStart, timeToMs(ls[k].start)),
                      NextSpeaker(spk, ls[k]), out)

\* the step between the parse and the diarization: the current text merges
\* a transcript that looks word-level, the earlier one has no such step
MergeIfWordLevel(text, ls) ==
  IF text = "current" /\ looksLikeWordLevelTranscript(ls)
  THEN MergeFrom(ls, 1, <<>>, Null, Null, <<>>)
  ELSE ls

\* the callers: a listed model, a name that is not listed, a path, the two
\* numbers of timestamp_size, word_timestamps, diarization.enabled
WhisperCallers ==
  [modelName : Optional({"tiny", "nope"}), modelPath : Optional({"/m.bin"}),
   timestamp_size : Optional({0, 2}), word_timestamps : Optional(BOOLEAN),
   language : {Null}, enabled : Optional(BOOLEAN)]

\* the config files and the files of the models directory
WhisperConfigs ==
  { c \in [modelName : Optional({"base"}), modelPath : Optional({"/c.bin"}),
           timestamp_size : {Null}, word_timestamps : Optional({TRUE}),
           language : Optional({"en"}),
           files : {{}, {"ggml-tiny.bin", "ggml-base.bin", "ggml-base.en.bin"}},
           text : {"current", "earlier"}] :
      c.word_timestamps = Null \/ c.language = Null }

\* (mutant) the diarization run unless it is switched off
DiarizationNotDisabled(eff) == eff.diarization = Null \/ eff.diarization[1]

\* diarize?.enabled
DiarizationEnabled(eff) == eff.diarization # Null /\ eff.diarization[1]

\* what runDiarization resolves with
WhisperDias == {<<>>, <<CHOOSE s \in AlignSegments : s.speaker = "S0">>}

\* a call of whisper with a non-empty filePath, before ensureWav16kMono
InitWhisper ==
  /\ pc = "prepare"
  /\ wOptions \in WhisperCallers
  /\ wConfig \in WhisperConfigs
  /\ command = <<>>
  /\ wLines = <<>>
  /\ wSteps = <<>>
  /\ wOutcome = ""
  /\ i = 0
  /\ DiarIdle
  /\ AlignIdle
  /\ MergeIdle
  /\ TimeIdle
  /\ VadIdle
  /\ PcmIdle
  /\ ShellIdle
  /\ DownloadIdle

\* ensureWav16kMono resolves or rejects
WhisperPrepare ==
  /\ pc = "prepare"
  /\ \E ok \in BOOLEAN :
       IF ok THEN pc' = "command" /\ wOutcome' = wOutcome
       ELSE pc' = "settled" /\ wOutcome' = "rejected: prepare"
  /\ UNCHANGED <<wOptions, wConfig, command, wLines, wSteps>>
  /\ UNCHANGED <<earlyVars, shellVars, downloadVars>>

\* loadConfig, effectiveOptions, createCppCommand
WhisperCommand ==
  /\ pc = "command"
  /\ LET made == createCppCommand(wConfig.text, EffectiveOptions(wOptions, wConfig),
                                  wConfig.files)
     IN  IF made[1] = "throw"
         THEN pc' = "settled" /\ wOutcome' = made[2] /\ command' = command
         ELSE pc' = "shell" /\ wOutcome' = wOutcome /\ command' = made
  /\ UNCHANGED <<wOptions, wConfig, wLines, wSteps>>
  /\ UNCHANGED <<earlyVars, shellVars, downloadVars>>

\* shell(command, shellOptions), parseTranscript and the merge of word-level
\* lines
WhisperTranscribe ==
  /\ pc = "shell"
  /\ \/ /\ pc' = "settled"
        /\ wOutcome' = "rejected: shell"
        /\ UNCHANGED <<wLines, wSteps>>
     \/ \E out \in ShellOutputs :
          /\ wLines' = MergeIfWordLevel(wConfig.text, parseTranscript(out))
          /\ wSteps' =
               wSteps \o <<"parse">>
                 \o (IF wLines' # parseTranscript(out) THEN <<"merge">> ELSE <<>>)
          /\ pc' = "diarize"
          /\ wOutcome' = wOutcome
  /\ UNCHANGED <<wOptions, wConfig, command>>
  /\ UNCHANGED <<earlyVars, shellVars, downloadVars>>

\* if (diarize?.enabled) try { runDiarization; assignSpeakersToTranscript }
\* catch { log }, and the return
WhisperDiarize ==
  /\ pc = "diarize"
  /\ IF DiarizationEnabled(EffectiveOptions(wOptions, wConfig))
     THEN \/ /\ wSteps' = Append(wSteps, "runDiarization threw")
             /\ wLines' = wLines
          \/ \E d \in WhisperDias :
               IF assignSpeakersToTranscript(wLines, d).threw
               THEN /\ wSteps' = wSteps \o <<"runDiarization", "assign threw">>
                    /\ wLines' = wLines
               ELSE /\ wSteps' = wSteps \o <<"runDiarization", "assign">>
                    /\ wLines' = assignSpeakersToTranscript(wLines, d).lines
     ELSE UNCHANGED <<wLines, wSteps>>
  /\ pc' = "settled"
  /\ wOutcome' = "resolved"
  /\ UNCHANGED <<wOptions, wConfig, command>>
  /\ UNCHANGED <<earlyVars, shellVars, downloadVars>>

NextWhisper == WhisperPrepare \/ WhisperCommand \/ WhisperTranscribe \/ WhisperDiarize

\* the call got as far as createCppCommand
CommandTried == pc \in {"shell", "diarize", "settled"} /\ wOutcome # "rejected: prepare"

\* the caller passes one of modelName and modelPath, the config file the other
ModelsFromBothSides ==
  \/ wOptions.modelPath # Null /\ wOptions.modelName = Null /\ wConfig.modelName # Null
  \/ wOptions.modelName # Null /\ wOptions.modelPath = Null /\ wConfig.modelPath # Null

\* the words of the command that name the model
ModelOfCommand ==
  LET m == CHOOSE k \in 1..Len(command) : command[k] = "-m"
      f == CHOOSE k \in 1..Len(command) : command[k] = "-f"
  IN  SubSeq(command, m + 1, f - 1)

\* C21: when the caller passes only modelPath and the config file supplies
\* modelName, or the other way round, the call is not rejected with the
\* 'NOT BOTH' error and a command that is built names the caller's model
C21_CallerModelOverrides ==
  (CommandTried /\ ModelsFromBothSides) =>
    /\ wOutcome # "NOT BOTH"
    /\ command # <<>> =>
         ModelOfCommand =
           IF wOptions.modelPath # Null THEN <<wOptions.modelPath[1]>>
           ELSE <<"models", GgmlFile(wOptions.modelName[1])>>

\* the whisperOptions that getFlags is called with
FlagsOfCall == EffectiveOptions(wOptions, wConfig).whisperOptions

\* C23: an option set with both a timestamp_size, whatever the number, 0
\* included, and word_timestamps: true is rejected, so that no command has
\* more than one '-ml' flag
C23_OneMaxLenFlag ==
  CommandTried =>
    /\ (/\ FlagsOfCall.timestamp_size # Null
        /\ FlagsOfCall.word_timestamps # Null
        /\ FlagsOfCall.word_timestamps[1]) => command = <<>>
    /\ Cardinality({k \in 1..Len(command) : command[k] = "-ml"}) <= 1

\* the positions of wSteps at which the diarization was started
DiarizationSteps ==
  {k \in 1..Len(wSteps) : wSteps[k] \in {"runDiarization", "runDiarization threw"}}

\* C27: whisper() merges the parsed lines before it starts the diarization;
\* when runDiarization or assignSpeakersToTranscript throws, the call still
\* resolves, with the parsed and merged lines as they were and no speaker on
\* any of them; when diarization.enabled is not true, runDiarization is not
\* called
C27_DiarizationOptional ==
  /\ [](\A m \in 1..Len(wSteps), d \in DiarizationSteps : wSteps[m] = "merge" => m < d)
  /\ [][(pc = "diarize" /\ wSteps' # wSteps
          /\ wSteps'[Len(wSteps')] \in {"runDiarization threw", "assign threw"}) =>
          /\ wOutcome' = "resolved"
          /\ wLines' = wLines
          /\ \A k \in 1..Len(wLines') : wLines'[k].speaker = Null]_vars
  /\ []((wOptions # <<>> /\ wOptions.enabled # Some(TRUE)) => DiarizationSteps = {})

\* a word-level transcript was merged, the diarization threw, the call resolved
C27_Witness ==
  /\ wOutcome = "resolved"
  /\ wSteps = <<"parse", "merge", "runDiarization threw">>
  /\ Len(wLines) = 1

(***************************************************************************)
(* whisperShell(command, options): pushd into the whisper.cpp directory,   *)
(* an optional make, the asynchronous exec and its callback.  The working  *)
(* directory and the directory stack of shelljs belong to the process, so  *)
(* the calls in progress share them.                                       *)
(***************************************************************************)
\* bound: the calls of whisperShell that may be in progress together
MaxCalls == 3

WHISPER_CPP_PATH == "lib/whisper.cpp"

\* the directory the process starts in
StartDir == "/app"

\* shell.pushd("-q", dir): the directory left goes on the stack
Pushd(dir, stack, to) == [dir |-> to, stack |-> <<dir>> \o stack]

\* shell.popd("-q"): back into the directory on top of the stack; with an
\* empty stack shelljs reports an error and leaves both as they are
Popd(dir, stack) ==
  IF stack = <<>> THEN [dir |-> dir, stack |-> stack]
  ELSE [dir |-> Head(stack), stack |-> Tail(stack)]

\* if (shell.pwd().toString() !== originalCwd) shell.cd(originalCwd)
Restored(dir, originalCwd) == IF dir # originalCwd THEN originalCwd ELSE dir

InitShell ==
  /\ pc = "shell calls"
  /\ cwd = StartDir
  /\ dirStack = <<>>
  /\ calls = [c \in 1..MaxCalls |-> [at |-> "new", originalCwd |-> "", outcome |-> ""]]
  /\ i = 0
  /\ DiarIdle
  /\ AlignIdle
  /\ MergeIdle
  /\ TimeIdle
  /\ VadIdle
  /\ PcmIdle
  /\ WhisperIdle
  /\ DownloadIdle

\* the synchronous part of call c: originalCwd, pushd, and then either a
\* make that fails (popd, reject), an exception (caught: popd, reject), or
\* the start of exec, whose callback runs later
ShellStart(c) ==
  /\ calls[c].at = "new"
  /\ \E way \in {"make failed", "threw", "exec"} :
       IF way = "exec"
       THEN /\ cwd' = Pushd(cwd, dirStack, WHISPER_CPP_PATH).dir
            /\ dirStack' = Pushd(cwd, dirStack, WHISPER_CPP_PATH).stack
            /\ calls' = [calls EXCEPT ![c] =
                           [at |-> "running", originalCwd |-> cwd, outcome |-> ""]]
       ELSE /\ cwd' = Popd(Pushd(cwd, dirStack, WHISPER_CPP_PATH).dir,
                           Pushd(cwd, dirStack, WHISPER_CPP_PATH).stack).dir
            /\ dirStack' = Popd(Pushd(cwd, dirStack, WHISPER_CPP_PATH).dir,
                                Pushd(cwd, dirStack, WHISPER_CPP_PATH).stack).stack
            /\ calls' = [calls EXCEPT ![c] =
                           [at |-> "settled", originalCwd |-> cwd,
                            outcome |-> "rejected: " \o way]]
  /\ UNCHANGED <<pc, earlyVars, whisperVars, downloadVars>>

\* the callback of exec for call c: popd, the restore, resolve or reject
ShellExit(c) ==
  /\ calls[c].at = "running"
  /\ cwd' = Restored(Popd(cwd, dirStack).dir, calls[c].originalCwd)
  /\ dirStack' = Popd(cwd, dirStack).stack
  /\ \E code \in {0, 1} :
       calls' = [calls EXCEPT ![c].at = "settled",
                              ![c].outcome = IF code = 0 THEN "resolved" ELSE "rejected: stderr"]
  /\ UNCHANGED <<pc, earlyVars, whisperVars, downloadVars>>

NextShell == \E c \in 1..MaxCalls : ShellStart(c) \/ ShellExit(c)

\* every call that was made has settled
AllSettled == \A c \in DOMAIN calls : calls[c].at # "running"

\* C22: whatever the number of calls of whisperShell, one after the other
\* or overlapping, and however each ends, once all have settled the working
\* directory is the one from before the first call and the directory stack
\* has its initial depth
C22_CwdRestored ==
  (calls # <<>> /\ AllSettled) => (cwd = StartDir /\ dirStack = <<>>)

(***************************************************************************)
(* downloadFile(url, dest): one write stream for the call, a chain of      *)
(* https.get requests along the redirects, the pipe of the final body.     *)
(***************************************************************************)
\* bound: the chunks of a response body
MaxChunks == 2

MAX_REDIRECTS == 5

\* the responses a server may give: 200 with a body, a 301 or 302 with or
\* without a location header, a 404
Responses ==
  {[status |-> 200, location |-> FALSE, chunks |-> n] : n \in 0..MaxChunks}
    \cup {[status |-> s, location |-> l, chunks |-> 0] : s \in {301, 302}, l \in BOOLEAN}
    \cup {[status |-> 404, location |-> FALSE, chunks |-> 0]}

\* res.statusCode >= 300 && res.statusCode < 400 && res.headers.location
IsRedirect(res) == res.status >= 300 /\ res.status < 400 /\ res.location

\* the state after createWriteStream(dest) and the first https.get
InitDownload ==
  /\ pc = "request"
  /\ responses = <<>>
  /\ redirectCount = 0
  /\ outClosed = FALSE
  /\ destExists = TRUE
  /\ written = 0
  /\ piped = ""
  /\ settled = ""
  /\ i = 0
  /\ DiarIdle
  /\ AlignIdle
  /\ MergeIdle
  /\ TimeIdle
  /\ VadIdle
  /\ PcmIdle
  /\ WhisperIdle
  /\ ShellIdle

\* the callback of https.get for a response res
DownloadResponse ==
  /\ pc = "request"
  /\ \E res \in Responses :
       /\ responses' = Append(responses, res)
       /\ IF IsRedirect(res)
          THEN /\ outClosed' = TRUE
               /\ destExists' = FALSE
               /\ IF redirectCount >= MAX_REDIRECTS
                  THEN /\ settled' = "rejected: too many redirects"
                       /\ pc' = "settled"
                       /\ redirectCount' = redirectCount
                  ELSE /\ redirectCount' = redirectCount + 1
                       /\ pc' = "request"
                       /\ settled' = settled
               /\ piped' = piped
          ELSE IF res.status # 200
          THEN /\ outClosed' = TRUE
               /\ destExists' = FALSE
               /\ settled' = "rejected: status"
               /\ pc' = "settled"
               /\ UNCHANGED <<redirectCount, piped>>
          ELSE /\ piped' = IF outClosed THEN "closed" ELSE "open"
               /\ pc' = "body"
               /\ UNCHANGED <<redirectCount, outClosed, destExists, settled>>
  /\ written' = written
  /\ UNCHANGED <<earlyVars, whisperVars, shellVars>>

\* res.pipe(out) hands a chunk to out: written to dest while out is open; a
\* write on the stream that close() has ended emits an 'error' on out, for
\* which there is no listener, and the process stops
DownloadChunk ==
  /\ pc = "body"
  /\ written < responses[Len(responses)].chunks
  /\ IF piped = "open"
     THEN written' = written + 1 /\ pc' = pc
     ELSE written' = written /\ pc' = "crashed"
  /\ UNCHANGED <<responses, redirectCount, outClosed, destExists, piped, settled>>
  /\ UNCHANGED <<earlyVars, whisperVars, shellVars>>

\* the body is over: out emits 'finish' (out.close(); resolve()) if it had
\* not finished before; a stream that close() has ended emitted its 'finish'
\* before the listener was attached, and nothing settles the promise
DownloadFinish ==
  /\ pc = "body"
  /\ written = responses[Len(responses)].chunks
  /\ IF piped = "open"
     THEN settled' = "resolved" /\ outClosed' = TRUE /\ pc' = "settled"
     ELSE settled' = settled /\ outClosed' = outClosed /\ pc' = "pending"
  /\ UNCHANGED <<responses, redirectCount, destExists, written, piped>>
  /\ UNCHANGED <<earlyVars, whisperVars, shellVars>>

\* the 'error' event of a request: out.close(), unlinkSync(dest), reject(err)
DownloadError ==
  /\ pc \in {"request", "body"}
  /\ outClosed' = TRUE
  /\ destExists' = FALSE
  /\ settled' = "rejected: network"
  /\ pc' = "settled"
  /\ UNCHANGED <<responses, redirectCount, written, piped>>
  /\ UNCHANGED <<earlyVars, whisperVars, shellVars>>

NextDownload == DownloadResponse \/ DownloadChunk \/ DownloadFinish \/ DownloadError

\* C28: downloadFile follows at most MAX_REDIRECTS redirects and rejects on
\* the next; it rejects on a final status other than 200 and on a network
\* error, the destination file removed; it never pipes a body into a write
\* stream it has closed; it resolves only after the whole body of a 200
\* response is written; and it is never left with its promise unsettled and
\* nothing more to come
C28_DownloadSettles ==
  /\ redirectCount <= MAX_REDIRECTS
  /\ Cardinality({k \in 1..Len(responses) : IsRedirect(responses[k])}) > MAX_REDIRECTS =>
       settled = "rejected: too many redirects"
  /\ (responses # <<>> /\ ~IsRedirect(responses[Len(responses)])
        /\ responses[Len(responses)].status # 200) => settled = "rejected: status"
  /\ settled \in {"rejected: too many redirects", "rejected: status", "rejected: network"} =>
       ~destExists
  /\ piped # "closed"
  /\ settled = "resolved" =>
       /\ responses[Len(responses)].status = 200
       /\ written = responses[Len(responses)].chunks
       /\ destExists
  /\ pc \notin {"crashed", "pending"}

SpecDiar == InitDiar /\ [][NextDiar]_vars

SpecSpeakers == InitSpeakers /\ [][NextDiar]_vars

SpecVad == InitVad /\ [][NextVad]_vars

SpecPcm == InitPcm /\ [][NextPcm]_vars

SpecWhisper == InitWhisper /\ [][NextWhisper]_vars

SpecShell == InitShell /\ [][NextShell]_vars

SpecDownload == InitDownload /\ [][NextDownload]_vars

SpecAlign == InitAlign /\ [][NextAlign]_vars

SpecTime == InitTime /\ [][NextTime]_vars

SpecMerge == InitMerge /\ [][NextMerge]_vars

SpecMergeSpeakers == InitMergeSpeakers /\ [][NextMerge]_vars

====
